---- MODULE Spec2Model ----
(***************************************************************************)
(* A model of the credential and trust boundary of arturvibe/cambridge-7:  *)
(* the two Frame.io webhook endpoints (src/main.py and src/app), the       *)
(* webhook service and the Pub/Sub publisher, the token cipher and the     *)
(* user/token repositories.                                                *)
(*                                                                         *)
(* Cryptography is symbolic: an HMAC is the pair of its key and message, a *)
(* Fernet token names its key, IV and plaintext, so two MACs or tokens are *)
(* equal only when their inputs are.  Everything around the primitives     *)
(* (decoding, re-encoding, comparison, error mapping) is computed as the   *)
(* code computes it.                                                       *)
(***************************************************************************)
EXTENDS Integers, Sequences, FiniteSets, TLC

VARIABLES
    deployment,               \* which FastAPI app the process serves
    VERIFY_SIGNATURES,        \* src/main.py module global
    FRAMEIO_WEBHOOK_SECRET,   \* src/main.py module global (NoSecret when unset)
    now,                      \* the server clock, seconds
    last,                     \* the last HTTP delivery handled and its response
    senderStatus,             \* per sender event: the last status the sender got
    queue,                    \* messages the Pub/Sub topic has accepted
    svc,                      \* the last direct process_webhook call
    pub,                      \* the last awaited GooglePubSubPublisher.publish
    TOKEN_ENCRYPTION_KEY,     \* the environment variable (KeyUnset when unset)
    _fernet,                  \* encryption.py module global
    encrypted,                \* the last encrypt_token call
    decrypted,                \* the last decrypt_token call
    GCP_PROJECT_ID,           \* the environment variable (None when unset)
    _repository,              \* users/repository.py module global
    firestore,                \* the document database: users and token documents
    memory,                   \* InMemoryUserRepository._users
    written,                  \* history: the token last saved, per repository
    op,                       \* the last repository call: arguments and outcome
    frameio_config,           \* FrameioConfig.from_env(): the Adobe client credentials
    req,                      \* per Frame.io API request in flight: its progress
    cookies,                  \* the browser's cookie jar for this site
    auth,                     \* the last response of a session or OAuth endpoint
    creating                  \* per get_or_create call in flight: its progress

webVars == <<deployment, VERIFY_SIGNATURES, FRAMEIO_WEBHOOK_SECRET, now, last,
             senderStatus, queue, svc, pub>>

cipherVars == <<TOKEN_ENCRYPTION_KEY, _fernet, encrypted, decrypted>>

storeVars == <<GCP_PROJECT_ID, _repository, firestore, memory, written, op>>

frameioVars == <<frameio_config, req>>

authVars == <<cookies, auth>>

raceVars == <<creating>>

vars == <<webVars, cipherVars, storeVars, frameioVars, authVars, raceVars>>

----------------------------------------------------------------------------
(* Bounds and program constants *)

StartTime == 1700000000
MaxTicks == 2
TickSeconds == 150
MaxQueue == 2
Lifetime == 200

SIGNATURE_TIME_TOLERANCE == 300

----------------------------------------------------------------------------
(* Python values *)

None == [k |-> "None"]
Str(s) == [k |-> "str", v |-> s]
Obj(f) == [k |-> "dict", f |-> f]
Arr == [k |-> "list"]
EmptyDict == Obj(<<>>)

\* Python truthiness of the values the model uses.
Truthy(x) ==
    CASE x.k = "None" -> FALSE
      [] x.k = "str" -> x.v # ""
      [] x.k = "dict" -> DOMAIN x.f # {}
      [] x.k = "list" -> FALSE
      [] OTHER -> TRUE

\* dict.get(key, default)
Get(d, key, default) == IF key \in DOMAIN d.f THEN d.f[key] ELSE default

\* Whether obj.get(...) can be called at all: only a dict has .get.
HasGet(x) == x.k = "dict"

----------------------------------------------------------------------------
(* Bytes and text *)

\* bytes.decode("utf-8"), strict, for one-, two- and three-byte forms; the
\* inputs hold no four-byte forms, so any other lead byte is an error here as
\* it is for the truncated inputs used.
RECURSIVE Utf8Decode(_)
Utf8Decode(b) ==
    IF b = <<>> THEN [ok |-> TRUE, text |-> <<>>]
    ELSE IF b[1] < 128
    THEN LET r == Utf8Decode(Tail(b))
         IN  IF r.ok THEN [ok |-> TRUE, text |-> <<b[1]>> \o r.text] ELSE r
    ELSE IF b[1] \in 194..223 /\ Len(b) >= 2 /\ b[2] \in 128..191
    THEN LET r == Utf8Decode(SubSeq(b, 3, Len(b)))
         IN  IF r.ok
             THEN [ok |-> TRUE,
                   text |-> <<(b[1] - 192) * 64 + (b[2] - 128)>> \o r.text]
             ELSE r
    ELSE IF b[1] \in 224..239 /\ Len(b) >= 3
            /\ b[2] \in 128..191 /\ b[3] \in 128..191
            /\ (b[1] = 224 => b[2] >= 160) /\ (b[1] = 237 => b[2] <= 159)
    THEN LET r == Utf8Decode(SubSeq(b, 4, Len(b)))
         IN  IF r.ok
             THEN [ok |-> TRUE,
                   text |-> <<(b[1] - 224) * 4096 + (b[2] - 128) * 64
                              + (b[3] - 128)>> \o r.text]
             ELSE r
    ELSE [ok |-> FALSE, text |-> <<>>]

\* bytes(text, "latin-1"): one byte per code point, an error above U+00FF.
Latin1Encode(text) ==
    IF \A i \in 1..Len(text) : text[i] <= 255
    THEN [ok |-> TRUE, bytes |-> text]
    ELSE [ok |-> FALSE, bytes |-> <<>>]

----------------------------------------------------------------------------
(* Request bodies: the bytes on the wire and what json.loads makes of them *)

EventA ==
    Obj([type |-> Str("file.created"),
         resource |-> Obj([type |-> Str("file"), id |-> Str("file-123")]),
         account |-> Obj([id |-> Str("acc-123")])])

BodyAscii    == [id |-> "ascii",    bytes |-> <<97>>,
                 json |-> [ok |-> TRUE, value |-> EventA]]
BodyLatin    == [id |-> "latin",    bytes |-> <<195, 169>>,
                 json |-> [ok |-> TRUE, value |-> EventA]]
BodyMojibake == [id |-> "mojibake", bytes |-> <<195, 131, 194, 169>>,
                 json |-> [ok |-> TRUE, value |-> EventA]]
BodyWide     == [id |-> "wide",     bytes |-> <<196, 128>>,
                 json |-> [ok |-> TRUE, value |-> EventA]]
BodyEmptyObj == [id |-> "emptyobj", bytes |-> <<123, 125>>,
                 json |-> [ok |-> TRUE, value |-> EmptyDict]]
BodyGarbage  == [id |-> "garbage",  bytes |-> <<123, 123>>,
                 json |-> [ok |-> FALSE, value |-> None]]
BodyBadUtf8  == [id |-> "badutf8",  bytes |-> <<233>>,
                 json |-> [ok |-> FALSE, value |-> None]]
BodyList     == [id |-> "list",     bytes |-> <<91, 93>>,
                 json |-> [ok |-> TRUE, value |-> Arr]]

Bodies == {BodyAscii, BodyLatin, BodyMojibake, BodyWide, BodyEmptyObj,
           BodyGarbage, BodyBadUtf8, BodyList}

\* json.loads(body.decode("utf-8"))
JsonLoads(body) ==
    IF Utf8Decode(body.bytes).ok /\ body.json.ok
    THEN [ok |-> TRUE, value |-> body.json.value]
    ELSE [ok |-> FALSE, value |-> None]

----------------------------------------------------------------------------
(* Headers and signatures *)

Missing == [k |-> "missing"]
TsText == [k |-> "text"]                 \* a timestamp header that is no integer
TsInt(n) == [k |-> "int", n |-> n]

TheSecret == "s3cr3t"
OtherSecret == "0th3r"
NoSecret == ""

\* HMAC-SHA256, symbolic.
HmacSha256(key, msg) == [key |-> key, msg |-> msg]

\* The signature header: "v0=" + hexdigest.
V0(mac) == [k |-> "v0", mac |-> mac]
SigGarbage == [k |-> "garbage"]

\* What the sender signs: the bytes "v0:" + timestamp + ":" + body as they go
\* on the wire.
SenderSign(key, n, bytes) == V0(HmacSha256(key, [ts |-> n, body |-> bytes]))

----------------------------------------------------------------------------
(* src/main.py: signature verification *)

\* The message the code MACs: f"v0:{timestamp}:{body.decode('utf-8')}"
\* re-encoded with bytes(message, "latin-1").
CodeMessage(n, bytes) ==
    LET decoded == Utf8Decode(bytes)
        encoded == Latin1Encode(decoded.text)
    IN  IF decoded.ok /\ encoded.ok
        THEN [ok |-> TRUE, msg |-> [ts |-> n, body |-> encoded.bytes]]
        ELSE [ok |-> FALSE, msg |-> [ts |-> n, body |-> <<>>]]

Abs(x) == IF x < 0 THEN -x ELSE x

\* A check that looks at old timestamps only.
OutsideTolerance_PastOnly(current_time, request_time) ==
    current_time - request_time > SIGNATURE_TIME_TOLERANCE

\* abs(current_time - request_time) > SIGNATURE_TIME_TOLERANCE
OutsideTolerance(current_time, request_time) ==
    Abs(current_time - request_time) > SIGNATURE_TIME_TOLERANCE

\* verify_frameio_signature(timestamp, signature, body, secret) at clock t;
\* every exception inside it is caught and turned into False.
verify_frameio_signature(timestamp, signature, body, secret, t) ==
    IF timestamp.k # "int" THEN FALSE                  \* int(timestamp) raises
    ELSE IF OutsideTolerance(t, timestamp.n) THEN FALSE
    ELSE LET m == CodeMessage(timestamp.n, body.bytes)
         IN  IF ~m.ok THEN FALSE                       \* decode or encode raises
             ELSE V0(HmacSha256(secret, m.msg)) = signature

\* The field extraction both endpoints run on the parsed payload; a value
\* without .get raises AttributeError.
ExtractFields(payload) ==
    IF ~HasGet(payload) THEN [ok |-> FALSE]
    ELSE IF \E key \in {"resource", "account", "workspace", "project", "user"} :
                ~HasGet(Get(payload, key, EmptyDict))
    THEN [ok |-> FALSE]
    ELSE [ok |-> TRUE,
          event_type |-> Get(payload, "type", Str("unknown")),
          resource_type |->
              Get(Get(payload, "resource", EmptyDict), "type", Str("unknown")),
          resource_id |->
              Get(Get(payload, "resource", EmptyDict), "id", Str("unknown"))]

\* The payload after "Parse JSON payload": the parsed value, or
\* {"raw_body": body.decode("utf-8")} when parsing fails; that decode raises
\* again for bytes that are not UTF-8.
ParsePayload(body) ==
    LET j == JsonLoads(body)
    IN  IF j.ok THEN [ok |-> TRUE, payload |-> j.value]
        ELSE IF Utf8Decode(body.bytes).ok
        THEN [ok |-> TRUE, payload |-> Obj([raw_body |-> Str(body.id)])]
        ELSE [ok |-> FALSE, payload |-> None]

NoPublish == [kind |-> "none"]

Response(endpoint, d, disp, t, status, verified, forwarded, content) ==
    [endpoint |-> endpoint, d |-> d, disp |-> disp, at |-> t, status |-> status,
     verified |-> verified, forwarded |-> forwarded, content |-> content]

\* src/main.py frameio_webhook: the response to delivery d.
LegacyResponse(d, verify, secret, t) ==
    LET R(status, verified, content) ==
            Response("legacy", d, NoPublish, t, status, verified, FALSE, content)
        p == ParsePayload(d.body)
        tail(verified) ==
            IF ~p.ok THEN R(500, verified, Str("error"))
            ELSE IF ~ExtractFields(p.payload).ok
            THEN R(500, verified, Str("error"))
            ELSE R(200, verified, Str("received"))
    IN  IF verify
        THEN IF secret = NoSecret THEN R(500, FALSE, Str("not configured"))
             ELSE IF d.ts = Missing \/ d.sig = Missing
             THEN R(401, FALSE, Str("missing headers"))
             ELSE IF ~verify_frameio_signature(d.ts, d.sig, d.body, secret, t)
             THEN R(401, FALSE, Str("invalid signature"))
             ELSE tail(TRUE)
        ELSE tail(FALSE)

----------------------------------------------------------------------------
(* src/app: the domain event, the webhook service, the publisher *)

Coroutine == [k |-> "coroutine"]

\* FrameIOEvent(**payload): "type" is required and must be a string (a falsy
\* value becomes "unknown" first); the flat id fields keep their defaults
\* unless the payload has keys of those names; other keys are kept as extras.
FrameIOEventInit(payload) ==
    LET IsStr(key) == Get(payload, key, Str("")).k = "str"
        IsOptStr(key) == Get(payload, key, None).k \in {"str", "None"}
        t == IF Truthy(Get(payload, "type", None))
             THEN payload.f["type"] ELSE Str("unknown")
    IN  IF "type" \notin DOMAIN payload.f \/ t.k # "str"
           \/ ~IsStr("resource_id") \/ ~IsStr("resource_type")
           \/ \E key \in {"account_id", "workspace_id", "project_id", "user_id"} :
                  ~IsOptStr(key)
        THEN [ok |-> FALSE]
        ELSE [ok |-> TRUE,
              type |-> t,
              resource_id |-> Get(payload, "resource_id", Str("unknown")),
              resource_type |-> Get(payload, "resource_type", Str("unknown")),
              extra |-> payload]

\* A publisher and what self.event_publisher.publish(event) evaluates to
\* inside process_webhook, which does not await it.  "outcome" is what the
\* publisher's publish does when its body runs, "r" what the call expression
\* yields.  The wired publisher is GooglePubSubPublisher, whose publish is
\* "async def": the call builds a coroutine object, runs nothing and reaches
\* no topic, whatever the outcome would be.  A synchronous publisher (the
\* test double) raises or returns at the call; it returns a message id only
\* for a message its queue accepted.
Raise == [k |-> "raise"]
Return(v) == [k |-> "return", v |-> v]
MessageIds == {Str("msg-id-123"), Str("msg-id-456")}

PublishCalls ==
    {[kind |-> "async", outcome |-> o, r |-> Return(Coroutine),
      accepted |-> FALSE] : o \in {Return(None)} \cup {Return(m) : m \in MessageIds}}
    \cup {[kind |-> "sync", outcome |-> o, r |-> o, accepted |-> a] :
             o \in {Raise, Return(None), Return(Str(""))}, a \in BOOLEAN}
    \cup {[kind |-> "sync", outcome |-> Return(m), r |-> Return(m),
           accepted |-> TRUE] : m \in MessageIds}

Raised(exc) == [exc |-> exc, ret |-> None]
Returned(v) == [exc |-> "", ret |-> v]

\* FrameioWebhookService.process_webhook(event, headers, client_ip), given
\* what the publish call evaluates to.
process_webhook(event, headers, client_ip, published) ==
    IF published.k = "raise" THEN Raised("PublisherError")
    ELSE IF ~Truthy(published.v) THEN Raised("PublisherError")
    ELSE Returned(published.v)

\* Python's binding of a call's positional arguments to process_webhook's
\* three required parameters.
CallProcessWebhook(args, published) ==
    IF Len(args) # 3 THEN Raised("TypeError")
    ELSE process_webhook(args[1], args[2], args[3], published)

\* Whether the publisher is reached by a call: only when the call binds.
PublisherReached(args) == Len(args) = 3

\* The message GooglePubSubPublisher.publish hands to the topic.
PubSubMessage(event, id) ==
    [id |-> id,
     attributes |-> [event_type |-> event.type,
                     resource_type |-> event.resource_type,
                     resource_id |-> event.resource_id]]

\* The arguments of the endpoint's call: webhook_service.process_webhook(event).
AppCallArgs(event) == <<event>>

\* src/app/api/frameio.py frameio_webhook: the response to delivery d when
\* the publisher would answer a publish call with disp.  Every exception is
\* caught by the handler's own "except Exception" and answered 500.
AppResponse(d, disp, t) ==
    LET R(status, forwarded, content) ==
            Response("app", d, disp, t, status, FALSE, forwarded, content)
        Err(forwarded) == R(500, forwarded, Str("error"))
        p == ParsePayload(d.body)
    IN  IF ~p.ok THEN Err(FALSE)
        ELSE IF ~ExtractFields(p.payload).ok THEN Err(FALSE)
        ELSE LET event == FrameIOEventInit(p.payload)
             IN  IF ~event.ok THEN Err(FALSE)
                 ELSE LET result == CallProcessWebhook(AppCallArgs(event), disp.r)
                      IN  IF result.exc # "" THEN Err(TRUE)
                          \* result["timestamp"] = ...: only a dict takes it
                          ELSE IF result.ret.k # "dict" THEN Err(TRUE)
                          ELSE R(200, TRUE, result.ret)

\* Whether the app endpoint's handling of d publishes to the queue.
AppPublishes(d, disp) ==
    LET p == ParsePayload(d.body)
    IN  /\ p.ok
        /\ ExtractFields(p.payload).ok
        /\ FrameIOEventInit(p.payload).ok
        /\ PublisherReached(AppCallArgs(FrameIOEventInit(p.payload)))
        /\ disp.accepted

\* GooglePubSubPublisher.publish(event), awaited: what the topic did with the
\* message, and the wait of at most ten seconds for its id.  Every exception
\* is caught and answered None.
PublishOutcomes ==
    {[k |-> "ok", accepted |-> TRUE],
     [k |-> "not_found", accepted |-> FALSE],
     [k |-> "permission_denied", accepted |-> FALSE],
     [k |-> "error", accepted |-> FALSE],
     [k |-> "timeout", accepted |-> TRUE],
     [k |-> "timeout", accepted |-> FALSE]}

publish(event, outcome, id) == IF outcome.k = "ok" THEN id ELSE None

----------------------------------------------------------------------------
(* src/app/infrastructure/encryption.py: the token cipher *)

\* A Python str is a text of code points or the ASCII text of a base64
\* token; bytes are raw or the base64 bytes of a token.
Text(cps) == [text |-> cps]
B64Text(token) == [b64 |-> token]
RawBytes(b) == [raw |-> b]
B64Bytes(token) == [b64bytes |-> token]

IsSurrogate(cp) == cp \in 55296..57343

\* str.encode() of a text: UTF-8, strict, for code points below U+10000; a
\* lone surrogate raises UnicodeEncodeError.
RECURSIVE Utf8Encode(_)
Utf8Encode(cps) ==
    IF cps = <<>> THEN [ok |-> TRUE, bytes |-> <<>>]
    ELSE LET cp == cps[1]
             r == Utf8Encode(Tail(cps))
             b == IF cp < 128 THEN <<cp>>
                  ELSE IF cp < 2048
                  THEN <<192 + (cp \div 64), 128 + (cp % 64)>>
                  ELSE <<224 + (cp \div 4096), 128 + ((cp \div 64) % 64),
                         128 + (cp % 64)>>
         IN  IF IsSurrogate(cp) \/ ~r.ok THEN [ok |-> FALSE, bytes |-> <<>>]
             ELSE [ok |-> TRUE, bytes |-> b \o r.bytes]

\* plaintext.encode() / ciphertext.encode()
StrEncode(s) ==
    IF "text" \in DOMAIN s
    THEN LET e == Utf8Encode(s.text)
         IN  [ok |-> e.ok, bytes |-> RawBytes(e.bytes)]
    ELSE [ok |-> TRUE, bytes |-> B64Bytes(s.b64)]

\* encrypted_bytes.decode() / decrypted_bytes.decode()
BytesDecode(b) ==
    IF "raw" \in DOMAIN b
    THEN LET d == Utf8Decode(b.raw)
         IN  [ok |-> d.ok, str |-> Text(d.text)]
    ELSE [ok |-> TRUE, str |-> B64Text(b.b64bytes)]

\* Values of TOKEN_ENCRYPTION_KEY.  A Fernet key is the URL-safe base64 of 32
\* bytes; anything else makes Fernet(key) raise.
KeyUnset == None
KeyEmpty == Str("")
KeyInvalid == Str("not-a-fernet-key")
Key1 == Str("fernet-key-1")
Key2 == Str("fernet-key-2")
FernetKeys == {Key1, Key2}
EnvKeys == {KeyUnset, KeyEmpty, KeyInvalid, Key1, Key2}

IVs == {"iv-1", "iv-2"}

Fernet(key) == [k |-> "Fernet", key |-> key]

\* A cipher that hands the data back.
FernetEncrypt_Noop(key, iv, data) == data

\* Fernet.encrypt(data), symbolic: the base64 of version, time, IV, the AES
\* ciphertext and the HMAC over them, drawn with a fresh IV.
FernetEncrypt(key, iv, data) ==
    B64Bytes([iv |-> iv,
              ct |-> [key |-> key, iv |-> iv, data |-> data],
              mac |-> HmacSha256(key, [iv |-> iv, data |-> data])])

\* Fernet.decrypt(token): InvalidToken unless the bytes are the base64 of a
\* token whose HMAC verifies under this key.
FernetDecrypt(key, token) ==
    IF "b64bytes" \notin DOMAIN token THEN [ok |-> FALSE, data |-> RawBytes(<<>>)]
    ELSE LET t == token.b64bytes
         IN  IF t.mac = HmacSha256(key, [iv |-> t.iv, data |-> t.ct.data])
                /\ t.ct.key = key /\ t.ct.iv = t.iv
             THEN [ok |-> TRUE, data |-> t.ct.data]
             ELSE [ok |-> FALSE, data |-> RawBytes(<<>>)]

\* The exceptions that "except ValueError: raise" lets through unchanged.
ValueErrors == {"ValueError", "UnicodeEncodeError", "UnicodeDecodeError"}

\* _get_fernet() with the singleton at cached and the environment at env: the
\* instance, and the singleton afterwards.
_get_fernet(cached, env) ==
    IF cached # None THEN [exc |-> "", fernet |-> cached, cache |-> cached]
    ELSE IF ~Truthy(env)
    THEN [exc |-> "ValueError", fernet |-> None, cache |-> None]
    ELSE IF env \notin FernetKeys
    THEN [exc |-> "ValueError", fernet |-> None, cache |-> None]
    ELSE [exc |-> "", fernet |-> Fernet(env), cache |-> Fernet(env)]

encrypt_token(plaintext, cached, env, iv) ==
    LET g == _get_fernet(cached, env)
        e == StrEncode(plaintext)
    IN  IF g.exc # "" THEN [exc |-> g.exc, ret |-> None, cache |-> g.cache]
        ELSE IF ~e.ok
        THEN [exc |-> "UnicodeEncodeError", ret |-> None, cache |-> g.cache]
        ELSE [exc |-> "", cache |-> g.cache,
              ret |-> BytesDecode(FernetEncrypt(g.fernet.key, iv, e.bytes)).str]

decrypt_token(ciphertext, cached, env) ==
    LET g == _get_fernet(cached, env)
        e == StrEncode(ciphertext)
        d == FernetDecrypt(g.fernet.key, e.bytes)
    IN  IF g.exc # "" THEN [exc |-> g.exc, ret |-> None, cache |-> g.cache]
        ELSE IF ~e.ok
        THEN [exc |-> "UnicodeEncodeError", ret |-> None, cache |-> g.cache]
        ELSE IF ~d.ok
        THEN [exc |-> "EncryptionError", ret |-> None, cache |-> g.cache]
        ELSE IF ~BytesDecode(d.data).ok
        THEN [exc |-> "UnicodeDecodeError", ret |-> None, cache |-> g.cache]
        ELSE [exc |-> "", ret |-> BytesDecode(d.data).str, cache |-> g.cache]

encrypt_token_optional(plaintext, cached, env, iv) ==
    IF plaintext = None THEN [exc |-> "", ret |-> None, cache |-> cached]
    ELSE encrypt_token(plaintext, cached, env, iv)

decrypt_token_optional(ciphertext, cached, env) ==
    IF ciphertext = None THEN [exc |-> "", ret |-> None, cache |-> cached]
    ELSE decrypt_token(ciphertext, cached, env)

----------------------------------------------------------------------------
(* src/app/users: tokens and the two repositories *)

Absent == [k |-> "absent"]               \* a key the token response lacks
IntVal(n) == [k |-> "int", v |-> n]

Uids == {"user-1"}
Providers == {"adobe", "google"}
TokenKeys == Uids \X Providers

Emails == {Str("a@example.com"), Str("b@example.com")}

NoDoc == [exists |-> FALSE]
EmptyStore ==
    [users |-> [uid \in Uids |-> NoDoc], tokens |-> [key \in TokenKeys |-> NoDoc]]

\* User(uid=uid, email=email); the timestamps are left out.
User(uid, email) == [uid |-> uid, email |-> email]

\* The user document (Firestore) or the _users entry (in memory) exists.
HasUser(store, uid) == store.users[uid] # NoDoc

\* A Python bool as a returned value.
Bool(b) == [k |-> "bool", v |-> b]

FirestoreUserRepository == [k |-> "FirestoreUserRepository"]
InMemoryUserRepository == [k |-> "InMemoryUserRepository"]

\* OAuthToken.from_oauth_response(provider, token_data); token_type, scope
\* and connected_at are carried along unchanged and left out.
from_oauth_response(provider, token_data) ==
    IF token_data.access_token = Absent THEN [exc |-> "KeyError", ret |-> None]
    ELSE IF token_data.access_token = None
    THEN [exc |-> "ValidationError", ret |-> None]
    ELSE [exc |-> "",
          ret |-> [provider |-> provider,
                   access_token |-> token_data.access_token,
                   refresh_token |-> IF token_data.refresh_token = Absent
                                     THEN None ELSE token_data.refresh_token,
                   expires_at |-> IF token_data.expires_at = Absent
                                  THEN None ELSE token_data.expires_at]]

\* OAuthToken.to_authlib_token()
to_authlib_token(token) ==
    [access_token |-> token.access_token,
     refresh_token |-> token.refresh_token,
     expires_at |-> token.expires_at]

\* OAuthToken.is_expired() at clock t
is_expired(token, t) ==
    IF token.expires_at = None THEN FALSE ELSE t >= token.expires_at.v

\* _is_firestore_configured()
_is_firestore_configured(project_id, encryption_key) ==
    project_id # None /\ encryption_key # None

\* get_user_repository(): the singleton afterwards; client_ok says whether
\* get_firestore_client() and the repository's construction succeed.
get_user_repository(repository, project_id, encryption_key, client_ok) ==
    IF repository # None THEN repository
    ELSE IF _is_firestore_configured(project_id, encryption_key)
    THEN IF client_ok THEN FirestoreUserRepository ELSE InMemoryUserRepository
    ELSE InMemoryUserRepository

\* FirestoreUserRepository.save_token(uid, provider, token_data): the
\* document database and the cipher singleton afterwards.
FirestoreSaveToken(store, uid, provider, token_data, cached, env, ivA, ivR) ==
    LET Fail(exc, cache) ==
            [exc |-> exc, store |-> store, token |-> None, cache |-> cache]
        t == from_oauth_response(provider, token_data)
        a == encrypt_token_optional(t.ret.access_token, cached, env, ivA)
        r == encrypt_token_optional(t.ret.refresh_token, a.cache, env, ivR)
    IN  IF ~HasUser(store, uid) THEN Fail("ValueError", cached)
        ELSE IF t.exc # "" THEN Fail(t.exc, cached)
        ELSE IF a.exc # "" THEN Fail(a.exc, a.cache)
        ELSE IF r.exc # "" THEN Fail(r.exc, r.cache)
        ELSE [exc |-> "", token |-> t.ret, cache |-> r.cache,
              store |-> [store EXCEPT !.tokens[<<uid, provider>>] =
                            [provider |-> t.ret.provider,
                             access_token |-> a.ret,
                             refresh_token |-> r.ret,
                             expires_at |-> t.ret.expires_at]]]

\* A save_token that creates the user record it does not find.
InMemorySaveToken_Upsert(store, uid, provider, token_data) ==
    LET t == from_oauth_response(provider, token_data)
    IN  IF t.exc # "" THEN [exc |-> t.exc, store |-> store, token |-> None]
        ELSE [exc |-> "", token |-> t.ret,
              store |-> [store EXCEPT !.users[uid] =
                                          IF @ = NoDoc THEN User(uid, Str(""))
                                          ELSE @,
                                      !.tokens[<<uid, provider>>] = t.ret]]

\* InMemoryUserRepository.save_token(uid, provider, token_data)
InMemorySaveToken(store, uid, provider, token_data) ==
    LET t == from_oauth_response(provider, token_data)
    IN  IF ~HasUser(store, uid)
        THEN [exc |-> "ValueError", store |-> store, token |-> None]
        ELSE IF t.exc # "" THEN [exc |-> t.exc, store |-> store, token |-> None]
        ELSE [exc |-> "", token |-> t.ret,
              store |-> [store EXCEPT !.tokens[<<uid, provider>>] = t.ret]]

\* A get_token that reports a record it cannot decrypt as absent.
FirestoreGetToken_Absent(store, uid, provider, cached, env) ==
    LET doc == store.tokens[<<uid, provider>>]
        a == decrypt_token_optional(doc.access_token, cached, env)
        r == decrypt_token_optional(doc.refresh_token, a.cache, env)
    IN  IF doc = NoDoc THEN [exc |-> "", ret |-> None, cache |-> cached]
        ELSE IF a.exc # "" \/ r.exc # "" \/ a.ret = None
        THEN [exc |-> "", ret |-> None, cache |-> r.cache]
        ELSE [exc |-> "", cache |-> r.cache,
              ret |-> [provider |-> doc.provider,
                       access_token |-> a.ret,
                       refresh_token |-> r.ret,
                       expires_at |-> doc.expires_at]]

\* FirestoreUserRepository.get_token(uid, provider)
FirestoreGetToken(store, uid, provider, cached, env) ==
    LET doc == store.tokens[<<uid, provider>>]
        a == decrypt_token_optional(doc.access_token, cached, env)
        r == decrypt_token_optional(doc.refresh_token, a.cache, env)
    IN  IF doc = NoDoc THEN [exc |-> "", ret |-> None, cache |-> cached]
        ELSE IF a.exc # "" THEN [exc |-> a.exc, ret |-> None, cache |-> a.cache]
        ELSE IF r.exc # "" THEN [exc |-> r.exc, ret |-> None, cache |-> r.cache]
        ELSE IF a.ret = None THEN [exc |-> "", ret |-> None, cache |-> r.cache]
        ELSE [exc |-> "", cache |-> r.cache,
              ret |-> [provider |-> doc.provider,
                       access_token |-> a.ret,
                       refresh_token |-> r.ret,
                       expires_at |-> doc.expires_at]]

\* InMemoryUserRepository.get_token(uid, provider)
InMemoryGetToken(store, uid, provider) ==
    IF ~HasUser(store, uid) \/ store.tokens[<<uid, provider>>] = NoDoc
    THEN None
    ELSE store.tokens[<<uid, provider>>]

\* A delete_token that removes every token of the user.
DeleteFrom_AllProviders(store, uid, provider) ==
    IF ~HasUser(store, uid) \/ store.tokens[<<uid, provider>>] = NoDoc
    THEN store
    ELSE [store EXCEPT !.tokens = [key \in TokenKeys |->
                                      IF key[1] = uid THEN NoDoc ELSE @[key]]]

\* delete_token(uid, provider), the same in both repositories: the store
\* afterwards.
DeleteFrom(store, uid, provider) ==
    IF ~HasUser(store, uid) \/ store.tokens[<<uid, provider>>] = NoDoc
    THEN store
    ELSE [store EXCEPT !.tokens[<<uid, provider>>] = NoDoc]

\* delete_token(uid, provider), the same in both repositories: the value
\* returned.
DeleteReturns(store, uid, provider) ==
    Bool(HasUser(store, uid) /\ store.tokens[<<uid, provider>>] # NoDoc)

\* The order in which tokens_ref.stream() yields the token documents.
ProviderOrder == <<"adobe", "google">>

\* _load_tokens after one document was decrypted with outcome g and the
\* documents after it with outcome rest.
LoadedAfter(g, rest, cached) ==
    IF g.exc # "" THEN [exc |-> g.exc, cache |-> g.cache]
    ELSE IF rest.exc # "" THEN rest
    ELSE [exc |-> "", cache |-> IF g.cache # cached THEN g.cache ELSE rest.cache]

\* FirestoreUserRepository._load_tokens(uid): every token document of the
\* user is decrypted in turn, as get_token decrypts one.  _get_fernet gives
\* the same cipher to each of them, so the documents after the first are
\* decrypted from the same singleton as the first.
RECURSIVE _load_tokens(_, _, _, _, _)
_load_tokens(store, uid, providers, cached, env) ==
    IF providers = <<>> THEN [exc |-> "", cache |-> cached]
    ELSE LoadedAfter(FirestoreGetToken(store, uid, Head(providers), cached, env),
                     _load_tokens(store, uid, Tail(providers), cached, env),
                     cached)

\* get_by_uid once _load_tokens ended as loaded: the user with its tokens.
UserLoaded(user, loaded) ==
    [exc |-> loaded.exc, cache |-> loaded.cache,
     ret |-> IF loaded.exc = "" THEN user ELSE None]

\* FirestoreUserRepository.get_by_uid(uid)
get_by_uid(store, uid, cached, env) ==
    IF ~HasUser(store, uid) THEN [exc |-> "", ret |-> None, cache |-> cached]
    ELSE UserLoaded(store.users[uid],
                    _load_tokens(store, uid, ProviderOrder, cached, env))

\* get_or_create once get_by_uid ended as existing: the user found, or
\* create(User(uid, email)).
CreateUnless(existing, store, uid, email) ==
    IF existing.exc # "" \/ existing.ret # None
    THEN [exc |-> existing.exc, ret |-> existing.ret, cache |-> existing.cache,
          store |-> store]
    ELSE [exc |-> "", ret |-> User(uid, email), cache |-> existing.cache,
          store |-> [store EXCEPT !.users[uid] = User(uid, email)]]

\* FirestoreUserRepository.get_or_create(uid, email)
FirestoreGetOrCreate(store, uid, email, cached, env) ==
    CreateUnless(get_by_uid(store, uid, cached, env), store, uid, email)

\* A get_or_create that takes over the email of the later call.
InMemoryGetOrCreate_Overwrite(store, uid, email) ==
    [exc |-> "", ret |-> User(uid, email),
     store |-> [store EXCEPT !.users[uid] = User(uid, email)]]

\* InMemoryUserRepository.get_or_create(uid, email)
InMemoryGetOrCreate(store, uid, email) ==
    IF HasUser(store, uid)
    THEN [exc |-> "", ret |-> store.users[uid], store |-> store]
    ELSE [exc |-> "", ret |-> User(uid, email),
          store |-> [store EXCEPT !.users[uid] = User(uid, email)]]

\* Token responses of a provider: the raw dict authlib or the refresh
\* endpoint hands over.
AccessTokens == {Text(<<97>>), Text(<<233>>)}
RefreshTokens == {Text(<<114>>)}
TokenResponses ==
    [access_token : AccessTokens \cup {Absent},
     refresh_token : RefreshTokens \cup {Absent},
     expires_at : {Absent, IntVal(StartTime)}]

\* Strings handed to the cipher: empty, ASCII, two- and three-byte
\* characters, a lone surrogate, and a text that is itself a token.
CipherInputs ==
    {Text(<<>>), Text(<<97>>), Text(<<233>>), Text(<<8364, 97>>),
     Text(<<55296>>),
     BytesDecode(FernetEncrypt(Key1, "iv-1", RawBytes(<<97>>))).str}

\* A token whose IV was changed after it was made.
Tampered(c) ==
    IF "b64" \in DOMAIN c THEN B64Text([c.b64 EXCEPT !.iv = "iv-x"]) ELSE c

NoCall == [called |-> FALSE]

\* Frame.io API requests the process can have in flight at once.
Requests == {"r1", "r2"}
NoRequest ==
    [pc |-> "idle", uid |-> "", t0 |-> 0, found |-> None, token |-> None,
     posts |-> 0, refresh |-> None, persisted |-> FALSE, bearer |-> None,
     exc |-> "", status |-> 0]

\* FrameioConfig with both Adobe client credentials set.
ConfigWithCredentials ==
    [adobe_client_id |-> Str("client-id"), adobe_client_secret |-> Str("secret")]

FrameioIdle ==
    /\ frameio_config = ConfigWithCredentials
    /\ req = [r \in Requests |-> NoRequest]

\* The cookie the login sets (AuthConfig.session_cookie_name) and the one
\* the end-to-end tests expect the SessionMiddleware to use.
CookieNames == {"session", "cambridge_session"}
NoCookies == [n \in CookieNames |-> Absent]

\* No session or OAuth endpoint has answered yet.
NoAuth ==
    [endpoint |-> "", request |-> None, idp |-> "", sent |-> Absent,
     status |-> 0, exc |-> "", claims |-> None, set_cookie |-> NoCookies]

\* get_or_create calls the process can have in flight at once.
Callers == {"c1", "c2"}
NoCreate ==
    [pc |-> "idle", uid |-> "", email |-> None, user |-> None, exc |-> "",
     ret |-> None, wrote |-> FALSE]

SessionIdle ==
    /\ cookies = NoCookies
    /\ auth = NoAuth
    /\ creating = [c \in Callers |-> NoCreate]

CipherIdle ==
    /\ TOKEN_ENCRYPTION_KEY = KeyUnset
    /\ _fernet = None
    /\ encrypted = NoCall
    /\ decrypted = NoCall

StoreIdle ==
    /\ GCP_PROJECT_ID = None
    /\ _repository = None
    /\ firestore = EmptyStore
    /\ memory = EmptyStore
    /\ written = [FirestoreUserRepository |-> EmptyStore.tokens,
                  InMemoryUserRepository |-> EmptyStore.tokens]
    /\ op = NoCall

----------------------------------------------------------------------------
(* Inputs *)

Delivery(body, ts, sig) == [body |-> body, ts |-> ts, sig |-> sig]

TsChoices(t) ==
    {Missing, TsText}
    \cup {TsInt(t + o) : o \in {-(SIGNATURE_TIME_TOLERANCE + 1),
                                -SIGNATURE_TIME_TOLERANCE,
                                SIGNATURE_TIME_TOLERANCE,
                                SIGNATURE_TIME_TOLERANCE + 1}}

\* Signature headers a delivery can carry: none, junk, a signature under
\* another key, and the sender's signature, for the timestamp in the header,
\* of this body or of one of three others.
SigChoices(body, ts, t) ==
    LET n == IF ts.k = "int" THEN ts.n ELSE t
    IN  {Missing, SigGarbage, SenderSign(OtherSecret, n, body.bytes)}
        \cup {SenderSign(TheSecret, n, b.bytes) :
                 b \in {body, BodyAscii, BodyLatin, BodyBadUtf8}}

Deliveries(t) ==
    UNION {{Delivery(b, ts, sig) : sig \in SigChoices(b, ts, t)} :
              b \in Bodies, ts \in TsChoices(t)}

\* The events the platform has to deliver, and the delivery it makes of one:
\* stamped with the current time and signed over the bytes sent.
SenderEvents == {BodyAscii, BodyLatin}
SenderDelivery(e, t) ==
    Delivery(e, TsInt(t), SenderSign(TheSecret, t, e.bytes))

NoDelivery == [endpoint |-> "none"]

----------------------------------------------------------------------------
(* The state machine *)

Init ==
    /\ deployment \in {"legacy", "app", "components"}
    /\ VERIFY_SIGNATURES \in (IF deployment = "legacy" THEN BOOLEAN ELSE {TRUE})
    /\ FRAMEIO_WEBHOOK_SECRET \in
           (IF deployment = "legacy" THEN {TheSecret, NoSecret} ELSE {NoSecret})
    /\ now = StartTime
    /\ last = NoDelivery
    /\ senderStatus = [e \in {b.id : b \in SenderEvents} |-> 0]
    /\ queue = <<>>
    /\ svc = NoCall
    /\ pub = NoCall
    /\ CipherIdle
    /\ StoreIdle
    /\ FrameioIdle
    /\ SessionIdle

Tick ==
    /\ now < StartTime + MaxTicks * TickSeconds
    /\ now' = now + TickSeconds
    /\ UNCHANGED <<deployment, VERIFY_SIGNATURES, FRAMEIO_WEBHOOK_SECRET, last,
                   senderStatus, queue, svc, pub>>
    /\ UNCHANGED <<cipherVars, storeVars, frameioVars, authVars, raceVars>>

\* POST /api/v1/frameio/webhook served by src/main.py.
LegacyWebhook(d) ==
    /\ deployment = "legacy"
    /\ last' = LegacyResponse(d, VERIFY_SIGNATURES, FRAMEIO_WEBHOOK_SECRET, now)
    /\ UNCHANGED <<deployment, VERIFY_SIGNATURES, FRAMEIO_WEBHOOK_SECRET, now,
                   queue, svc, pub>>
    /\ UNCHANGED <<cipherVars, storeVars, frameioVars, authVars, raceVars>>

\* POST /api/v1/frameio/webhook served by src/app.
AppWebhook(d, disp) ==
    /\ deployment = "app"
    /\ AppPublishes(d, disp) => Len(queue) < MaxQueue
    /\ last' = AppResponse(d, disp, now)
    /\ queue' = IF AppPublishes(d, disp)
                THEN Append(queue, [from |-> "app", body |-> d.body.id])
                ELSE queue
    /\ UNCHANGED <<deployment, VERIFY_SIGNATURES, FRAMEIO_WEBHOOK_SECRET, now,
                   svc, pub>>
    /\ UNCHANGED <<cipherVars, storeVars, frameioVars, authVars, raceVars>>

Webhook(d, disp) == LegacyWebhook(d) \/ AppWebhook(d, disp)

\* A delivery from anyone who can reach the endpoint.
Deliver ==
    /\ last = NoDelivery
    /\ \E d \in Deliveries(now), disp \in PublishCalls : Webhook(d, disp)
    /\ UNCHANGED senderStatus

\* The platform delivers event e, again after every answer that is not 200.
SenderDeliverWith(e, disp) ==
    /\ last = NoDelivery
    /\ senderStatus[e.id] # 200
    /\ Webhook(SenderDelivery(e, now), disp)
    /\ senderStatus' = [senderStatus EXCEPT ![e.id] = last'.status]

SenderDeliver(e) == \E disp \in PublishCalls : SenderDeliverWith(e, disp)

\* The same, at a moment when the publisher's queue accepts the message.
SenderDeliverAccepted(e) ==
    \E disp \in {c \in PublishCalls : c.accepted} : SenderDeliverWith(e, disp)

\* The response has left and the request's scope has ended.
Complete ==
    /\ last # NoDelivery
    /\ last' = NoDelivery
    /\ UNCHANGED <<deployment, VERIFY_SIGNATURES, FRAMEIO_WEBHOOK_SECRET, now,
                   senderStatus, queue, svc, pub>>
    /\ UNCHANGED <<cipherVars, storeVars, frameioVars, authVars, raceVars>>

\* FrameioWebhookService.process_webhook called as its signature asks, with a
\* publisher whose publish call evaluates to disp.
ServiceCall(payload, disp) ==
    /\ deployment = "components"
    /\ disp.accepted => Len(queue) < MaxQueue
    /\ LET event == FrameIOEventInit(payload)
       IN  /\ svc' = [called |-> TRUE, disp |-> disp,
                      result |-> process_webhook(event, EmptyDict, "testclient",
                                                 disp.r)]
           /\ queue' = IF disp.accepted
                       THEN Append(queue, [from |-> "service", body |-> "event"])
                       ELSE queue
    /\ UNCHANGED <<deployment, VERIFY_SIGNATURES, FRAMEIO_WEBHOOK_SECRET, now,
                   last, senderStatus, pub>>
    /\ UNCHANGED <<cipherVars, storeVars, frameioVars, authVars, raceVars>>

\* A publisher that remembers what it sent: an event whose attributes are
\* already on the topic is not sent again.
PublisherPublish_Dedup(payload, outcome, id) ==
    /\ deployment = "components"
    /\ outcome.accepted => Len(queue) < MaxQueue
    /\ LET event == FrameIOEventInit(payload)
           sent == \E i \in 1..Len(queue) :
                       /\ queue[i].from = "publisher"
                       /\ queue[i].message.attributes
                              = PubSubMessage(event, id).attributes
       IN  /\ pub' = [called |-> TRUE, outcome |-> outcome,
                      result |-> publish(event, outcome, id)]
           /\ queue' = IF outcome.accepted /\ ~sent
                       THEN Append(queue, [from |-> "publisher", body |-> "event",
                                           message |-> PubSubMessage(event, id),
                                           answer |-> publish(event, outcome, id)])
                       ELSE queue
    /\ UNCHANGED <<deployment, VERIFY_SIGNATURES, FRAMEIO_WEBHOOK_SECRET, now,
                   last, senderStatus, svc>>
    /\ UNCHANGED <<cipherVars, storeVars, frameioVars, authVars, raceVars>>

\* GooglePubSubPublisher.publish awaited.  "answer" is what the call returned
\* to its caller about the message the topic took.
PublisherPublish(payload, outcome, id) ==
    /\ deployment = "components"
    /\ outcome.accepted => Len(queue) < MaxQueue
    /\ LET event == FrameIOEventInit(payload)
       IN  /\ pub' = [called |-> TRUE, outcome |-> outcome,
                      result |-> publish(event, outcome, id)]
           /\ queue' = IF outcome.accepted
                       THEN Append(queue, [from |-> "publisher", body |-> "event",
                                           message |-> PubSubMessage(event, id),
                                           answer |-> publish(event, outcome, id)])
                       ELSE queue
    /\ UNCHANGED <<deployment, VERIFY_SIGNATURES, FRAMEIO_WEBHOOK_SECRET, now,
                   last, senderStatus, svc>>
    /\ UNCHANGED <<cipherVars, storeVars, frameioVars, authVars, raceVars>>

Next ==
    \/ Tick
    \/ Deliver
    \/ \E e \in SenderEvents : SenderDeliver(e)
    \/ Complete
    \/ \E disp \in PublishCalls : ServiceCall(EventA, disp)
    \/ \E outcome \in PublishOutcomes, id \in MessageIds :
           PublisherPublish(EventA, outcome, id)

Spec == Init /\ [][Next]_vars

\* The src/app service under the platform's deliveries alone.  The platform
\* keeps delivering, every response leaves, and the publisher's queue is not
\* down for ever: again and again a delivery comes when it accepts.
FairInit == Init /\ deployment = "app"

FairNext ==
    \/ Tick
    \/ \E e \in SenderEvents : SenderDeliver(e)
    \/ Complete

FairSpec ==
    /\ FairInit
    /\ [][FairNext]_vars
    /\ WF_vars(Complete)
    /\ \A e \in SenderEvents : SF_vars(SenderDeliverAccepted(e))

----------------------------------------------------------------------------
(* The cipher and the credential store as state machines *)

WebIdle ==
    /\ deployment = "app"
    /\ VERIFY_SIGNATURES = TRUE
    /\ FRAMEIO_WEBHOOK_SECRET = NoSecret
    /\ now = StartTime
    /\ last = NoDelivery
    /\ senderStatus = [e \in {b.id : b \in SenderEvents} |-> 0]
    /\ queue = <<>>
    /\ svc = NoCall
    /\ pub = NoCall

\* The process starts with key in its environment: the module globals are
\* None again, what the in-memory repository held is gone and no call has
\* been served yet; the document database is as it was.
Restart(key) ==
    /\ TOKEN_ENCRYPTION_KEY' = key
    /\ _fernet' = None
    /\ _repository' = None
    /\ memory' = EmptyStore
    /\ written' = [written EXCEPT !.InMemoryUserRepository = EmptyStore.tokens]
    /\ op' = NoCall
    /\ req' = [r \in Requests |-> NoRequest]
    /\ creating' = [c \in Callers |-> NoCreate]
    /\ UNCHANGED <<encrypted, decrypted, GCP_PROJECT_ID, firestore,
                   frameio_config, authVars, webVars>>

\* encrypt_token(s)
EncryptToken(s, iv) ==
    LET r == encrypt_token(s, _fernet, TOKEN_ENCRYPTION_KEY, iv)
    IN  /\ encrypted' = [called |-> TRUE, plaintext |-> s, fernet |-> r.cache,
                   out |-> [exc |-> r.exc, ret |-> r.ret]]
        /\ _fernet' = r.cache
        /\ UNCHANGED <<TOKEN_ENCRYPTION_KEY, decrypted, storeVars, frameioVars, authVars, raceVars, webVars>>

\* decrypt_token(c)
DecryptToken(c) ==
    LET r == decrypt_token(c, _fernet, TOKEN_ENCRYPTION_KEY)
    IN  /\ decrypted' = [called |-> TRUE, ciphertext |-> c, fernet |-> r.cache,
                   out |-> [exc |-> r.exc, ret |-> r.ret]]
        /\ _fernet' = r.cache
        /\ UNCHANGED <<TOKEN_ENCRYPTION_KEY, encrypted, storeVars, frameioVars, authVars, raceVars, webVars>>

\* What decrypt_token is given: the last ciphertext made, that ciphertext
\* tampered with, or a text that is no token.
DecryptInputs ==
    {Text(<<97>>)}
    \cup (IF encrypted.called /\ encrypted.out.exc = ""
          THEN {encrypted.out.ret, Tampered(encrypted.out.ret)} ELSE {})

\* reset_encryption()
reset_encryption ==
    /\ _fernet' = None
    /\ UNCHANGED <<TOKEN_ENCRYPTION_KEY, encrypted, decrypted, storeVars, frameioVars, authVars, raceVars, webVars>>

CipherInit ==
    /\ WebIdle
    /\ StoreIdle
    /\ FrameioIdle
    /\ SessionIdle
    /\ TOKEN_ENCRYPTION_KEY \in EnvKeys
    /\ _fernet = None
    /\ encrypted = NoCall
    /\ decrypted = NoCall

CipherNext ==
    \/ \E s \in CipherInputs, iv \in IVs : EncryptToken(s, iv)
    \/ \E c \in DecryptInputs : DecryptToken(c)
    \/ reset_encryption
    \/ \E key \in EnvKeys : Restart(key)

CipherSpec == CipherInit /\ [][CipherNext]_vars

\* The store of the repository the application selected.
StoreOf(repository) ==
    IF repository = FirestoreUserRepository THEN firestore ELSE memory

\* A call of the repository interface as the caller sees it: the
\* arguments (email is None when the method takes none), the exception
\* raised ("" when none) and the value returned.
Called(name, repo, uid, provider, email, exc, ret) ==
    [called |-> TRUE, name |-> name, repo |-> repo, uid |-> uid,
     provider |-> provider, email |-> email, exc |-> exc, ret |-> ret]

\* repository.get_or_create(uid, email)
GetOrCreate(uid, email, client_ok) ==
    LET repo == get_user_repository(_repository, GCP_PROJECT_ID,
                                    TOKEN_ENCRYPTION_KEY, client_ok)
        m == InMemoryGetOrCreate(memory, uid, email)
    IN  /\ _repository' = repo
        /\ IF repo = FirestoreUserRepository
           THEN \E f \in {FirestoreGetOrCreate(firestore, uid, email, _fernet,
                                                TOKEN_ENCRYPTION_KEY)} :
                    /\ firestore' = f.store
                    /\ _fernet' = f.cache
                    /\ op' = Called("get_or_create", repo, uid, "", email,
                                    f.exc, f.ret)
                    /\ UNCHANGED memory
           ELSE /\ memory' = m.store
                /\ op' = Called("get_or_create", repo, uid, "", email,
                                m.exc, m.ret)
                /\ UNCHANGED <<firestore, _fernet>>
        /\ UNCHANGED <<GCP_PROJECT_ID, written, TOKEN_ENCRYPTION_KEY, encrypted,
                       decrypted, frameioVars, authVars, raceVars, webVars>>

\* repository.save_token(uid, provider, token_data) through the selected
\* repository: what it does to the store, the cipher and the call record.
SaveEffect(uid, provider, token_data, ivA, ivR, client_ok) ==
    LET repo == get_user_repository(_repository, GCP_PROJECT_ID,
                                    TOKEN_ENCRYPTION_KEY, client_ok)
        f == FirestoreSaveToken(firestore, uid, provider, token_data, _fernet,
                                TOKEN_ENCRYPTION_KEY, ivA, ivR)
        m == InMemorySaveToken(memory, uid, provider, token_data)
    IN  /\ _repository' = repo
        /\ IF repo = FirestoreUserRepository
           THEN /\ firestore' = f.store
                /\ _fernet' = f.cache
                /\ written' =
                       IF f.exc = ""
                       THEN [written EXCEPT
                                !.FirestoreUserRepository[<<uid, provider>>] =
                                    f.token]
                       ELSE written
                /\ op' = Called("save_token", repo, uid, provider, None,
                                f.exc, f.token)
                /\ UNCHANGED memory
           ELSE /\ memory' = m.store
                /\ written' =
                       IF m.exc = ""
                       THEN [written EXCEPT
                                !.InMemoryUserRepository[<<uid, provider>>] =
                                    m.token]
                       ELSE written
                /\ op' = Called("save_token", repo, uid, provider, None,
                                m.exc, m.token)
                /\ UNCHANGED <<firestore, _fernet>>
        /\ UNCHANGED <<GCP_PROJECT_ID, TOKEN_ENCRYPTION_KEY, encrypted, decrypted, webVars>>

\* save_token called outside a Frame.io request.
Save(uid, provider, token_data, ivA, ivR, client_ok) ==
    /\ SaveEffect(uid, provider, token_data, ivA, ivR, client_ok)
    /\ UNCHANGED <<frameioVars, authVars, raceVars>>

\* The OAuth callback stores the tokens of a completed authorization.
SaveToken(uid, provider, token_data, ivA, ivR, client_ok) ==
    Save(uid, provider, token_data, ivA, ivR, client_ok)

\* The token the selected repository returns for (uid, provider).
GetToken(repo, uid, provider) ==
    IF repo = FirestoreUserRepository
    THEN LET g == FirestoreGetToken(firestore, uid, provider, _fernet,
                                    TOKEN_ENCRYPTION_KEY)
         IN  [exc |-> g.exc, ret |-> g.ret]
    ELSE [exc |-> "", ret |-> InMemoryGetToken(memory, uid, provider)]

\* repository.get_token(uid, provider) through the selected repository: what
\* it does to the cipher and the call record.
ReadEffect(uid, provider, client_ok) ==
    LET repo == get_user_repository(_repository, GCP_PROJECT_ID,
                                    TOKEN_ENCRYPTION_KEY, client_ok)
        g == FirestoreGetToken(firestore, uid, provider, _fernet,
                               TOKEN_ENCRYPTION_KEY)
    IN  /\ _repository' = repo
        /\ IF repo = FirestoreUserRepository
           THEN /\ _fernet' = g.cache
                /\ op' = Called("get_token", repo, uid, provider, None,
                                g.exc, g.ret)
           ELSE /\ op' = Called("get_token", repo, uid, provider, None, "",
                                InMemoryGetToken(memory, uid, provider))
                /\ UNCHANGED _fernet
        /\ UNCHANGED <<GCP_PROJECT_ID, firestore, memory, written,
                       TOKEN_ENCRYPTION_KEY, encrypted, decrypted, webVars>>

\* get_token called outside a Frame.io request.
ReadToken(uid, provider, client_ok) ==
    /\ ReadEffect(uid, provider, client_ok)
    /\ UNCHANGED <<frameioVars, authVars, raceVars>>

\* An expired Adobe token is refreshed and the new token persisted:
\* get_frameio_service finds the token, _refresh_token_if_needed gets
\* new_token_data from the provider and on_token_refresh saves it.
RefreshPersist(uid, new_token_data, ivA, ivR, client_ok) ==
    LET repo == get_user_repository(_repository, GCP_PROJECT_ID,
                                    TOKEN_ENCRYPTION_KEY, client_ok)
        old == GetToken(repo, uid, "adobe")
        new == from_oauth_response("adobe", new_token_data)
    IN  /\ old.exc = "" /\ old.ret # None
        /\ is_expired(old.ret, now)
        /\ old.ret.refresh_token # None
        /\ new.exc = ""
        /\ Save(uid, "adobe", to_authlib_token(new.ret), ivA, ivR, client_ok)

\* repository.delete_token(uid, provider) through the selected repository:
\* what it does to the store and the call record.
DeleteEffect(uid, provider, client_ok) ==
    LET repo == get_user_repository(_repository, GCP_PROJECT_ID,
                                    TOKEN_ENCRYPTION_KEY, client_ok)
        after == DeleteFrom(StoreOf(repo), uid, provider)
    IN  /\ _repository' = repo
        /\ firestore' = IF repo = FirestoreUserRepository THEN after ELSE firestore
        /\ memory' = IF repo = InMemoryUserRepository THEN after ELSE memory
        /\ written' = [written EXCEPT ![repo.k][<<uid, provider>>] =
                          IF after.tokens[<<uid, provider>>] = NoDoc
                          THEN NoDoc ELSE @]
        /\ op' = Called("delete_token", repo, uid, provider, None, "",
                        DeleteReturns(StoreOf(repo), uid, provider))
        /\ UNCHANGED <<GCP_PROJECT_ID, cipherVars, webVars>>

\* delete_token on disconnect, outside the session model.
DeleteToken(uid, provider, client_ok) ==
    /\ DeleteEffect(uid, provider, client_ok)
    /\ UNCHANGED <<frameioVars, authVars, raceVars>>

StoreInit ==
    /\ WebIdle
    /\ FrameioIdle
    /\ SessionIdle
    /\ TOKEN_ENCRYPTION_KEY \in {KeyUnset, KeyInvalid, Key1}
    /\ _fernet = None
    /\ encrypted = NoCall
    /\ decrypted = NoCall
    /\ GCP_PROJECT_ID \in {None, Str("project")}
    /\ _repository = None
    /\ firestore = EmptyStore
    /\ memory = EmptyStore
    /\ written = [FirestoreUserRepository |-> EmptyStore.tokens,
                  InMemoryUserRepository |-> EmptyStore.tokens]
    /\ op = NoCall

StoreNext ==
    \/ \E uid \in Uids, ok \in BOOLEAN :
           GetOrCreate(uid, Str("a@example.com"), ok)
    \/ \E uid \in Uids, p \in Providers, td \in TokenResponses, ok \in BOOLEAN :
           SaveToken(uid, p, td, "iv-1", "iv-2", ok)
    \/ \E uid \in Uids, td \in TokenResponses, ok \in BOOLEAN :
           RefreshPersist(uid, td, "iv-1", "iv-2", ok)
    \/ \E uid \in Uids, p \in Providers, ok \in BOOLEAN : DeleteToken(uid, p, ok)
    \/ Restart(TOKEN_ENCRYPTION_KEY)

StoreSpec == StoreInit /\ [][StoreNext]_vars

\* The stored ciphertext of one field of a token document is damaged in the
\* document database, outside the process.
Corrupt(uid, provider, field) ==
    LET doc == firestore.tokens[<<uid, provider>>]
    IN  /\ doc # NoDoc
        /\ doc[field] # None
        /\ Tampered(doc[field]) # doc[field]
        /\ firestore' = [firestore EXCEPT !.tokens[<<uid, provider>>][field] =
                             Tampered(@)]
        /\ op' = NoCall
        /\ UNCHANGED <<GCP_PROJECT_ID, _repository, memory, written, cipherVars,
                       frameioVars, authVars, raceVars, webVars>>

\* The token responses the repository scenarios save: a full one, one
\* without a refresh token, and one without an access token.
RepoResponses ==
    {[access_token |-> Text(<<97>>), refresh_token |-> Text(<<114>>),
      expires_at |-> Absent],
     [access_token |-> Text(<<233>>), refresh_token |-> Absent,
      expires_at |-> IntVal(StartTime)],
     [access_token |-> Absent, refresh_token |-> Absent, expires_at |-> Absent]}

RepoInit ==
    /\ WebIdle
    /\ FrameioIdle
    /\ SessionIdle
    /\ TOKEN_ENCRYPTION_KEY \in {KeyUnset, Key1}
    /\ _fernet = None
    /\ encrypted = NoCall
    /\ decrypted = NoCall
    /\ GCP_PROJECT_ID \in {None, Str("project")}
    /\ _repository = None
    /\ firestore = EmptyStore
    /\ memory = EmptyStore
    /\ written = [FirestoreUserRepository |-> EmptyStore.tokens,
                  InMemoryUserRepository |-> EmptyStore.tokens]
    /\ op = NoCall

RepoNext ==
    \/ \E uid \in Uids, email \in Emails : GetOrCreate(uid, email, TRUE)
    \/ \E uid \in Uids, p \in Providers, td \in RepoResponses :
           SaveToken(uid, p, td, "iv-1", "iv-2", TRUE)
    \/ \E uid \in Uids, p \in Providers : ReadToken(uid, p, TRUE)
    \/ \E uid \in Uids, p \in Providers : DeleteToken(uid, p, TRUE)
    \/ \E key \in {KeyUnset, KeyInvalid, Key1, Key2} : Restart(key)
    \/ \E uid \in Uids, p \in Providers,
          field \in {"access_token", "refresh_token"} : Corrupt(uid, p, field)

RepoSpec == RepoInit /\ [][RepoNext]_vars

\* Sequences of repository calls in one process, with nothing else
\* happening to the stored data.
CallsInit ==
    /\ WebIdle
    /\ FrameioIdle
    /\ SessionIdle
    /\ TOKEN_ENCRYPTION_KEY \in {KeyUnset, KeyInvalid, Key1}
    /\ _fernet = None
    /\ encrypted = NoCall
    /\ decrypted = NoCall
    /\ GCP_PROJECT_ID \in {None, Str("project")}
    /\ _repository = None
    /\ firestore = EmptyStore
    /\ memory = EmptyStore
    /\ written = [FirestoreUserRepository |-> EmptyStore.tokens,
                  InMemoryUserRepository |-> EmptyStore.tokens]
    /\ op = NoCall

CallsNext ==
    \/ \E uid \in Uids, email \in Emails, ok \in BOOLEAN :
           GetOrCreate(uid, email, ok)
    \/ \E uid \in Uids, p \in Providers, td \in RepoResponses, ok \in BOOLEAN :
           SaveToken(uid, p, td, "iv-1", "iv-2", ok)
    \/ \E uid \in Uids, p \in Providers, ok \in BOOLEAN : ReadToken(uid, p, ok)
    \/ \E uid \in Uids, p \in Providers, ok \in BOOLEAN : DeleteToken(uid, p, ok)

CallsSpec == CallsInit /\ [][CallsNext]_vars

----------------------------------------------------------------------------
(* src/app/integrations/adobe: the Frame.io service behind its router *)

\* exceptions.py: FrameioError and its subclasses; TokenExpiredError is a
\* FrameioAuthError.
FrameioErrors ==
    {"FrameioError", "FrameioAuthError", "FrameioNotFoundError",
     "FrameioRateLimitError", "TokenExpiredError"}
FrameioAuthErrors == {"FrameioAuthError", "TokenExpiredError"}

\* FrameioConfig.can_refresh_tokens()
can_refresh_tokens(config) ==
    Truthy(config.adobe_client_id) /\ Truthy(config.adobe_client_secret)

\* FrameioConfig without a client secret.
ConfigWithoutSecret ==
    [adobe_client_id |-> Str("client-id"), adobe_client_secret |-> None]

\* "not self._token.refresh_token" is false: the token has a refresh token
\* and it is not the empty string.
HasRefreshToken(token) ==
    token.refresh_token # None /\ token.refresh_token # Text(<<>>)

\* A service that refreshes every token that has a refresh token.
_refresh_token_if_needed_Eager(token, t, config) ==
    IF ~HasRefreshToken(token)
    THEN IF is_expired(token, t) THEN "TokenExpiredError" ELSE "return"
    ELSE IF ~can_refresh_tokens(config) THEN "TokenExpiredError"
    ELSE "post"

\* A service that asks the provider whenever the token is expired.
_refresh_token_if_needed_Blind(token, t, config) ==
    IF ~is_expired(token, t) THEN "return"
    ELSE IF ~can_refresh_tokens(config) THEN "TokenExpiredError"
    ELSE "post"

\* FrameioService._refresh_token_if_needed() up to its first await: return
\* at once, raise TokenExpiredError, or POST to the token endpoint.
_refresh_token_if_needed(token, t, config) ==
    IF ~is_expired(token, t) THEN "return"
    ELSE IF ~HasRefreshToken(token) THEN "TokenExpiredError"
    ELSE IF ~can_refresh_tokens(config) THEN "TokenExpiredError"
    ELSE "post"

\* What the token endpoint can send on a refresh; Adobe IMS names the
\* lifetime expires_in, the repository's own tests send expires_at.
FarFuture == StartTime + Lifetime * 10
ProviderResponses ==
    [access_token : {Text(<<98>>)},
     refresh_token : {Text(<<115>>), Absent},
     expires_at : {Absent, IntVal(FarFuture)},
     expires_in : {IntVal(Lifetime)}]
    \cup {[access_token |-> Absent, refresh_token |-> Absent,
           expires_at |-> Absent, expires_in |-> IntVal(Lifetime)]}

\* What "await client.post(token_refresh_url, ...)" can end in: a response
\* with a status code, or an httpx exception when the endpoint is not reached
\* or does not answer in time.
HttpResponse(status, json) ==
    [kind |-> "response", status |-> status, json |-> json, exc |-> ""]
HttpFailure(exc) ==
    [kind |-> "failure", status |-> 0, json |-> None, exc |-> exc]
RefreshOutcomes ==
    {HttpResponse(200, td) : td \in ProviderResponses}
    \cup {HttpResponse(400, None), HttpResponse(503, None)}
    \cup {HttpFailure("ConnectError"), HttpFailure("ReadTimeout")}

\* _refresh_token_if_needed() from the end of the POST to the callback: the
\* exception raised ("" when none) and self._token afterwards.
RefreshResult(outcome) ==
    LET t == from_oauth_response("adobe", outcome.json)
    IN  IF outcome.kind = "failure" THEN [exc |-> outcome.exc, token |-> None]
        ELSE IF outcome.status # 200
        THEN [exc |-> "TokenExpiredError", token |-> None]
        ELSE IF t.exc # "" THEN [exc |-> t.exc, token |-> None]
        ELSE [exc |-> "", token |-> t.ret]

\* FrameioService._handle_response_error(response): the exception for a
\* status of 400 or more.
_handle_response_error(status) ==
    IF status \in {401, 403} THEN "FrameioAuthError"
    ELSE IF status = 404 THEN "FrameioNotFoundError"
    ELSE IF status = 429 THEN "FrameioRateLimitError"
    ELSE "FrameioError"

\* What "await client.request(...)" to the Frame.io API can end in.
ApiOutcomes ==
    {HttpResponse(st, None) : st \in {200, 401, 500}}
    \cup {HttpFailure("ConnectError")}

\* handle_frameio_error(e): the status of the HTTPException.
handle_frameio_error(e) ==
    IF e \in FrameioAuthErrors THEN 401
    ELSE IF e = "FrameioNotFoundError" THEN 404
    ELSE IF e = "FrameioRateLimitError" THEN 429
    ELSE 502

\* The status an endpoint of the router answers when the service call
\* raised exc: FrameioError is caught and mapped, anything else is the
\* framework's 500.
EndpointStatus(exc) ==
    IF exc = "" THEN 200
    ELSE IF exc \in FrameioErrors THEN handle_frameio_error(exc)
    ELSE 500

\* A request that has been answered.
Done(r, exc, status) ==
    [req[r] EXCEPT !.pc = "done", !.exc = exc, !.status = status]

\* GET /integrations/adobe/frameio/... arrives: get_frameio_service reads
\* the token, the endpoint calls the service, and _make_request runs up to
\* its first await.
Begin(r, uid) ==
    /\ req[r].pc \in {"idle", "done"}
    /\ ReadEffect(uid, "adobe", TRUE)
    /\ LET fresh == [NoRequest EXCEPT !.uid = uid, !.t0 = now]
           token == op'.ret
           with == [fresh EXCEPT !.found = token, !.token = token]
           step == _refresh_token_if_needed(token, now, frameio_config)
       IN  req' = [req EXCEPT ![r] =
               IF op'.exc # ""
               THEN [fresh EXCEPT !.pc = "done", !.exc = op'.exc, !.status = 500]
               ELSE IF token = None
               THEN [fresh EXCEPT !.pc = "done", !.exc = "HTTPException",
                                  !.status = 403]
               ELSE IF step = "return"
               THEN [with EXCEPT !.pc = "requesting",
                                 !.bearer = token.access_token]
               ELSE IF step = "post"
               THEN [with EXCEPT !.pc = "refreshing", !.posts = 1]
               ELSE [with EXCEPT !.pc = "done", !.exc = step,
                                 !.status = EndpointStatus(step)]]
    /\ UNCHANGED <<frameio_config, authVars, raceVars>>

\* The POST to the token endpoint ends.
RefreshResponse(r, outcome) ==
    LET res == RefreshResult(outcome)
    IN  /\ req[r].pc = "refreshing"
        /\ req' = [req EXCEPT ![r] =
               IF res.exc # ""
               THEN [Done(r, res.exc, EndpointStatus(res.exc))
                        EXCEPT !.refresh = outcome]
               ELSE [@ EXCEPT !.pc = "persisting", !.token = res.token,
                              !.refresh = outcome]]
        /\ UNCHANGED <<frameio_config, authVars, raceVars, storeVars, cipherVars,
                       webVars>>

\* A callback that persists nothing.
Persist_Skip(r, ivA, ivR) ==
    /\ req[r].pc = "persisting"
    /\ req' = [req EXCEPT ![r] =
           [@ EXCEPT !.pc = "requesting", !.persisted = TRUE,
                     !.bearer = req[r].token.access_token]]
    /\ UNCHANGED <<frameio_config, authVars, raceVars, storeVars, cipherVars,
                       webVars>>

\* A callback that leaves the stored token alone when it is no longer the
\* one this request found, that is, when another refresh was persisted first.
Persist_FirstWins(r, ivA, ivR) ==
    /\ req[r].pc = "persisting"
    /\ IF /\ GetToken(_repository, req[r].uid, "adobe").ret # None
          /\ GetToken(_repository, req[r].uid, "adobe").ret.access_token
                 # req[r].found.access_token
       THEN /\ req' = [req EXCEPT ![r] =
                   [@ EXCEPT !.pc = "requesting", !.persisted = TRUE,
                             !.bearer = req[r].token.access_token]]
            /\ UNCHANGED <<storeVars, cipherVars, webVars>>
       ELSE /\ SaveEffect(req[r].uid, "adobe",
                          to_authlib_token(req[r].token), ivA, ivR, TRUE)
            /\ req' = [req EXCEPT ![r] =
                   IF op'.exc # ""
                   THEN Done(r, op'.exc, EndpointStatus(op'.exc))
                   ELSE [@ EXCEPT !.pc = "requesting", !.persisted = TRUE,
                                  !.bearer = req[r].token.access_token]]
    /\ UNCHANGED <<frameio_config, authVars, raceVars>>

\* on_token_refresh(self._token): the refreshed token is saved; the API
\* request is sent only when the save returned.
Persist(r, ivA, ivR) ==
    /\ req[r].pc = "persisting"
    /\ SaveEffect(req[r].uid, "adobe", to_authlib_token(req[r].token),
                  ivA, ivR, TRUE)
    /\ req' = [req EXCEPT ![r] =
           IF op'.exc # ""
           THEN Done(r, op'.exc, EndpointStatus(op'.exc))
           ELSE [@ EXCEPT !.pc = "requesting", !.persisted = TRUE,
                          !.bearer = req[r].token.access_token]]
    /\ UNCHANGED <<frameio_config, authVars, raceVars>>

\* The request to the Frame.io API ends and the endpoint answers.
ApiResponse(r, outcome) ==
    LET exc == IF outcome.kind = "failure" THEN outcome.exc
               ELSE IF outcome.status >= 400
               THEN _handle_response_error(outcome.status)
               ELSE ""
    IN  /\ req[r].pc = "requesting"
        /\ req' = [req EXCEPT ![r] = Done(r, exc, EndpointStatus(exc))]
        /\ UNCHANGED <<frameio_config, authVars, raceVars, storeVars, cipherVars,
                       webVars>>

\* The tokens an OAuth callback stores for Adobe: with and without a
\* refresh token, without expiry, expired from the start, and expiring
\* Lifetime seconds after the start.
StoredResponses ==
    [access_token : {Text(<<97>>)},
     refresh_token : {Text(<<114>>), Text(<<>>), Absent},
     expires_at : {Absent, IntVal(StartTime), IntVal(StartTime + Lifetime)}]

FrameioInit ==
    /\ WebIdle
    /\ TOKEN_ENCRYPTION_KEY \in {KeyUnset, Key1}
    /\ _fernet = None
    /\ encrypted = NoCall
    /\ decrypted = NoCall
    /\ GCP_PROJECT_ID = Str("project")
    /\ _repository = None
    /\ firestore = EmptyStore
    /\ memory = EmptyStore
    /\ written = [FirestoreUserRepository |-> EmptyStore.tokens,
                  InMemoryUserRepository |-> EmptyStore.tokens]
    /\ op = NoCall
    /\ frameio_config \in {ConfigWithCredentials, ConfigWithoutSecret}
    /\ req = [r \in Requests |-> NoRequest]
    /\ SessionIdle

\* One request at a time is driven through the service.
FrameioNext ==
    \/ \E uid \in Uids : GetOrCreate(uid, Str("a@example.com"), TRUE)
    \/ \E uid \in Uids, td \in StoredResponses :
           SaveToken(uid, "adobe", td, "iv-1", "iv-2", TRUE)
    \/ \E uid \in Uids : Begin("r1", uid)
    \/ \E outcome \in RefreshOutcomes : RefreshResponse("r1", outcome)
    \/ Persist("r1", "iv-2", "iv-1")
    \/ \E outcome \in ApiOutcomes : ApiResponse("r1", outcome)
    \/ Tick

FrameioSpec == FrameioInit /\ [][FrameioNext]_vars

----------------------------------------------------------------------------
(* Sessions: the magic-link callback, the session dependencies, the OAuth
   endpoints and the SessionMiddleware around every response *)

\* AuthConfig.session_cookie_name: the cookie the login sets and
\* get_current_user reads.
session_cookie_name == "session"

\* app.add_middleware(SessionMiddleware, secret_key=SESSION_SECRET_KEY)
\* passes no session_cookie, so the middleware uses Starlette's default.
session_cookie == "session"

\* The session cookie the identity provider mints from an ID token.
FirebaseCookie(uid, email) ==
    [kind |-> "firebase", uid |-> uid, email |-> email]

\* The cookie the SessionMiddleware writes: the request.session dict signed
\* with SESSION_SECRET_KEY. The dict holds authlib's state entries, one per
\* provider with an authorization under way.
SignedSession(data) == [kind |-> "signed", data |-> data]

\* Set-Cookie with the value "null" and an expiry in the past.
ClearedCookie == [kind |-> "cleared"]

\* The one-time link was requested for this address; the identity provider
\* knows the user under this uid.
LinkEmail == Str("a@example.com")
LinkUid == "user-1"
OobCodes == {"code-a", "code-x"}
IdToken(uid, email) == [k |-> "id_token", uid |-> uid, email |-> email]

\* The email query parameter of the callback: left out, empty, the address
\* of the link, another address.
CallbackEmails == {None, Str("")} \cup Emails

\* What accounts:signInWithEmailLink answers: an ID token only for the
\* code of the link together with its address; INVALID_EMAIL for another
\* address, INVALID_OOB_CODE for another code; the request can also fail on
\* the network.
ExchangeOutcomes(oobCode, email) ==
    IF oobCode = "code-a" /\ email = LinkEmail
    THEN {HttpResponse(200, [idToken |-> IdToken(LinkUid, LinkEmail)]),
          HttpResponse(200, [idToken |-> Absent]),
          HttpResponse(400, [error |-> "EXPIRED_OOB_CODE"]),
          HttpFailure("ConnectError")}
    ELSE IF oobCode = "code-a"
    THEN {HttpResponse(400, [error |-> "INVALID_EMAIL"]),
          HttpFailure("ConnectError")}
    ELSE {HttpResponse(400, [error |-> "INVALID_OOB_CODE"]),
          HttpFailure("ConnectError")}

\* TokenExchangeService.exchange_oob_code_for_id_token
exchange_oob_code_for_id_token(outcome) ==
    IF outcome.kind = "failure"
    THEN [exc |-> "AuthenticationError", ret |-> None]
    ELSE IF outcome.status # 200
    THEN [exc |-> "AuthenticationError", ret |-> None]
    ELSE IF outcome.json.idToken = Absent
    THEN [exc |-> "AuthenticationError", ret |-> None]
    ELSE [exc |-> "", ret |-> outcome.json.idToken]

\* firebase_auth.create_session_cookie: the cookie, or one of its errors.
MintOutcomes == {"ok", "InvalidIdTokenError", "ExpiredIdTokenError", "Exception"}

\* SessionCookieService.create_session_cookie
create_session_cookie(id_token, mint) ==
    IF mint = "ok"
    THEN [exc |-> "", ret |-> FirebaseCookie(id_token.uid, id_token.email)]
    ELSE [exc |-> "AuthenticationError", ret |-> None]

\* What a handler hands to the middleware: the status, the exception behind
\* it, the claims it served and the cookies it set itself.
Reply(status, exc, claims, set_cookie) ==
    [status |-> status, exc |-> exc, claims |-> claims,
     set_cookie |-> set_cookie]

\* The response of the callback once the ID token is there or not.
Redeemed(id, mint) ==
    IF id.exc # ""
    THEN Reply(401, id.exc, None, NoCookies)
    ELSE IF create_session_cookie(id.ret, mint).exc # ""
    THEN Reply(401, "AuthenticationError", None, NoCookies)
    ELSE Reply(302, "", None,
               [NoCookies EXCEPT ![session_cookie_name] =
                    create_session_cookie(id.ret, mint).ret])

\* magic_link_callback(oobCode, email)
magic_link_callback(email, exchange, mint) ==
    IF ~Truthy(email)
    THEN Reply(400, "HTTPException", None, NoCookies)
    ELSE Redeemed(exchange_oob_code_for_id_token(exchange), mint)

\* firebase_auth.verify_session_cookie(cookie, check_revoked=True): the
\* claims, or one of the errors the Admin SDK raises. Expired and revoked
\* are subclasses of InvalidSessionCookieError; a disabled user and a
\* failed certificate fetch are not.
InvalidSessionCookieErrors ==
    {"InvalidSessionCookieError", "ExpiredSessionCookieError",
     "RevokedSessionCookieError"}
VerifyErrors ==
    InvalidSessionCookieErrors
        \cup {"UserDisabledError", "CertificateFetchError"}

\* What the identity provider can say about a cookie: anything about one
\* it minted, invalid about any other value.
VerifyOutcomes(cookie) ==
    IF cookie = Absent THEN {"none"}
    ELSE IF cookie.kind = "firebase" THEN {"ok"} \cup VerifyErrors
    ELSE {"InvalidSessionCookieError"}

AllVerifyOutcomes == {"none", "ok"} \cup VerifyErrors

Claims(cookie) == [uid |-> cookie.uid, email |-> cookie.email]

\* SessionCookieService.verify_session_cookie: every exception becomes an
\* AuthenticationError.
verify_session_cookie(cookie, outcome) ==
    IF outcome = "ok"
    THEN [exc |-> "", ret |-> Claims(cookie)]
    ELSE [exc |-> "AuthenticationError", ret |-> None]

\* app.auth.dependencies.get_current_user: the dependency of the dashboard
\* and of the OAuth and Frame.io routers.
get_current_user(session, outcome) ==
    IF session = Absent
    THEN Reply(401, "HTTPException", None, NoCookies)
    ELSE IF verify_session_cookie(session, outcome).exc # ""
    THEN Reply(401, "HTTPException", None, NoCookies)
    ELSE Reply(200, "", Claims(session), NoCookies)

\* app.api.dependencies.get_current_user and AuthService.get_current_user
\* of core/services.py: only InvalidSessionCookieError is caught; any other
\* exception leaves the dependency and the framework answers 500.
api_get_current_user(session, outcome) ==
    IF session = Absent
    THEN Reply(401, "HTTPException", None, NoCookies)
    ELSE IF outcome = "ok"
    THEN Reply(200, "", Claims(session), NoCookies)
    ELSE IF outcome \in InvalidSessionCookieErrors
    THEN Reply(401, "HTTPException", None, NoCookies)
    ELSE Reply(500, outcome, None, NoCookies)

\* SessionMiddleware on the way in: the session dict of the request. A
\* cookie under its name that it did not sign (BadSignature) counts as no
\* session.
LoadSession(jar) ==
    IF jar[session_cookie] # Absent /\ jar[session_cookie].kind = "signed"
    THEN [data |-> jar[session_cookie].data,
          initial_session_was_empty |-> FALSE]
    ELSE [data |-> {}, initial_session_was_empty |-> TRUE]

\* SessionMiddleware on the way out (send_wrapper): a session dict with
\* data is written under the middleware's cookie name, after the cookies the
\* handler set; a dict emptied during the request clears that cookie.
send_wrapper(set_cookie, data, initial_session_was_empty) ==
    IF data # {}
    THEN [set_cookie EXCEPT ![session_cookie] = SignedSession(data)]
    ELSE IF ~initial_session_was_empty
    THEN [set_cookie EXCEPT ![session_cookie] = ClearedCookie]
    ELSE set_cookie

\* The browser applies the Set-Cookie headers of a response to its jar.
StoreCookies(jar, set_cookie) ==
    [n \in CookieNames |->
        IF set_cookie[n] = Absent THEN jar[n]
        ELSE IF set_cookie[n] = ClearedCookie THEN Absent
        ELSE set_cookie[n]]

\* The response leaves through the middleware and reaches the browser;
\* data is the session dict as the handler left it. The record keeps the
\* query parameters of the request (None when it has none that matter), what
\* the identity provider said during it and the session cookie it carried.
Answer(endpoint, request, outcome, reply, data) ==
    /\ auth' = [endpoint |-> endpoint, request |-> request, idp |-> outcome,
                sent |-> cookies[session_cookie_name],
                status |-> reply.status, exc |-> reply.exc,
                claims |-> reply.claims,
                set_cookie |->
                    send_wrapper(reply.set_cookie, data,
                        LoadSession(cookies).initial_session_was_empty)]
    /\ cookies' = StoreCookies(cookies,
                      send_wrapper(reply.set_cookie, data,
                          LoadSession(cookies).initial_session_was_empty))

\* What the identity provider said to the exchange, in a word ("" when
\* the callback did not ask).
Said(email, exchange) ==
    IF ~Truthy(email) THEN ""
    ELSE IF exchange.kind = "failure" THEN exchange.exc
    ELSE IF exchange.status = 200 THEN "ok"
    ELSE exchange.json.error

\* GET /auth/magic/callback?oobCode=..&email=..
MagicCallback(oobCode, email, exchange, mint) ==
    /\ Answer("magic_callback", [oobCode |-> oobCode, email |-> email],
              Said(email, exchange), magic_link_callback(email, exchange, mint),
              LoadSession(cookies).data)
    /\ UNCHANGED <<storeVars, cipherVars, webVars, frameioVars, raceVars>>

\* GET /dashboard
Dashboard(outcome) ==
    /\ outcome \in VerifyOutcomes(cookies[session_cookie_name])
    /\ Answer("dashboard", None, outcome,
              get_current_user(cookies[session_cookie_name], outcome),
              LoadSession(cookies).data)
    /\ UNCHANGED <<storeVars, cipherVars, webVars, frameioVars, raceVars>>

\* GET /users/me of api/auth.py, behind AuthService.get_current_user.
UsersMe(outcome) ==
    /\ outcome \in VerifyOutcomes(cookies[session_cookie_name])
    /\ Answer("users_me", None, outcome,
              api_get_current_user(cookies[session_cookie_name], outcome),
              LoadSession(cookies).data)
    /\ UNCHANGED <<storeVars, cipherVars, webVars, frameioVars, raceVars>>

\* GET /oauth/{provider}/connect: authlib's authorize_redirect keeps the
\* state of the authorization in request.session.
Connect(provider, outcome) ==
    /\ outcome \in VerifyOutcomes(cookies[session_cookie_name])
    /\ \E user \in {get_current_user(cookies[session_cookie_name], outcome)} :
           IF user.status # 200
           THEN Answer("connect", None, outcome, user, LoadSession(cookies).data)
           ELSE Answer("connect", None, outcome,
                       Reply(302, "", user.claims, NoCookies),
                       LoadSession(cookies).data \cup {provider})
    /\ UNCHANGED <<storeVars, cipherVars, webVars, frameioVars, raceVars>>

\* The token response authorize_access_token returns to the callback.
CallbackToken ==
    [access_token |-> Text(<<97>>), refresh_token |-> Text(<<114>>),
     expires_at |-> IntVal(StartTime + Lifetime)]

\* The callback after save_token: an exception of the repository is not
\* handled and becomes a 500.
Saved(user, exc) ==
    IF exc # "" THEN Reply(500, exc, user.claims, NoCookies)
    ELSE Reply(302, "", user.claims, NoCookies)

\* GET /oauth/{provider}/callback: authorize_access_token takes the state
\* out of request.session (MismatchingStateError, an OAuthError, when there
\* is none), exchanges the code, and the callback saves the token.
OAuthCallback(provider, outcome, granted) ==
    /\ outcome \in VerifyOutcomes(cookies[session_cookie_name])
    /\ \E user \in {get_current_user(cookies[session_cookie_name], outcome)} :
            IF user.status # 200
            THEN /\ Answer("callback", None, outcome, user, LoadSession(cookies).data)
                 /\ UNCHANGED <<storeVars, cipherVars, webVars, frameioVars,
                                raceVars>>
            ELSE IF provider \notin LoadSession(cookies).data \/ ~granted
            THEN /\ Answer("callback", None, outcome,
                           Reply(401, "OAuthError", user.claims, NoCookies),
                           LoadSession(cookies).data \ {provider})
                 /\ UNCHANGED <<storeVars, cipherVars, webVars, frameioVars,
                                raceVars>>
            ELSE /\ SaveEffect(user.claims.uid, provider, CallbackToken,
                               "iv-1", "iv-2", TRUE)
                 /\ Answer("callback", None, outcome, Saved(user, op'.exc),
                           LoadSession(cookies).data \ {provider})
                 /\ UNCHANGED <<frameioVars, raceVars>>

\* DELETE /oauth/{provider}
Disconnect(provider, outcome) ==
    /\ outcome \in VerifyOutcomes(cookies[session_cookie_name])
    /\ \E user \in {get_current_user(cookies[session_cookie_name], outcome)} :
            IF user.status # 200
            THEN /\ Answer("disconnect", None, outcome, user, LoadSession(cookies).data)
                 /\ UNCHANGED <<storeVars, cipherVars, webVars, frameioVars,
                                raceVars>>
            ELSE /\ DeleteEffect(user.claims.uid, provider, TRUE)
                 /\ Answer("disconnect", None, outcome,
                           IF op'.ret = Bool(TRUE)
                           THEN Reply(200, "", user.claims, NoCookies)
                           ELSE Reply(404, "HTTPException", user.claims, NoCookies),
                           LoadSession(cookies).data)
                 /\ UNCHANGED <<frameioVars, raceVars>>

AuthInit ==
    /\ WebIdle
    /\ TOKEN_ENCRYPTION_KEY \in {KeyUnset, Key1}
    /\ _fernet = None
    /\ encrypted = NoCall
    /\ decrypted = NoCall
    /\ GCP_PROJECT_ID = Str("project")
    /\ _repository = None
    /\ firestore = EmptyStore
    /\ memory = EmptyStore
    /\ written = [FirestoreUserRepository |-> EmptyStore.tokens,
                  InMemoryUserRepository |-> EmptyStore.tokens]
    /\ op = NoCall
    /\ FrameioIdle
    /\ SessionIdle

AuthNext ==
    \/ \E oobCode \in OobCodes, email \in CallbackEmails, mint \in MintOutcomes :
           \E exchange \in ExchangeOutcomes(oobCode, email) :
               MagicCallback(oobCode, email, exchange, mint)
    \/ \E outcome \in AllVerifyOutcomes : Dashboard(outcome)
    \/ \E outcome \in AllVerifyOutcomes : UsersMe(outcome)
    \/ \E provider \in Providers, outcome \in AllVerifyOutcomes :
           Connect(provider, outcome)
    \/ \E provider \in Providers, outcome \in AllVerifyOutcomes,
          granted \in BOOLEAN :
           OAuthCallback(provider, outcome, granted)
    \/ \E provider \in Providers, outcome \in AllVerifyOutcomes :
           Disconnect(provider, outcome)

AuthSpec == AuthInit /\ [][AuthNext]_vars

----------------------------------------------------------------------------
(* Frame.io requests, OAuth callbacks and disconnects at the same time *)

\* The token an OAuth callback stored some time ago: it has a refresh token
\* and its expiry has passed.
ExpiredToken ==
    [access_token |-> Text(<<97>>), refresh_token |-> Text(<<114>>),
     expires_at |-> IntVal(StartTime)]

\* The token endpoint answers every refresh with a token of its own, or
\* rejects it.
RaceResponses ==
    [access_token : {Text(<<98>>), Text(<<99>>)},
     refresh_token : {Text(<<115>>)},
     expires_at : {Absent, IntVal(FarFuture)},
     expires_in : {IntVal(Lifetime)}]
RaceOutcomes ==
    {HttpResponse(200, td) : td \in RaceResponses}
    \cup {HttpResponse(400, None)}

RaceInit ==
    /\ WebIdle
    /\ TOKEN_ENCRYPTION_KEY \in {KeyUnset, Key1}
    /\ _fernet = None
    /\ encrypted = NoCall
    /\ decrypted = NoCall
    /\ GCP_PROJECT_ID = Str("project")
    /\ _repository = None
    /\ firestore = EmptyStore
    /\ memory = EmptyStore
    /\ written = [FirestoreUserRepository |-> EmptyStore.tokens,
                  InMemoryUserRepository |-> EmptyStore.tokens]
    /\ op = NoCall
    /\ FrameioIdle
    /\ SessionIdle

\* Both requests are served at once, each stopping at its awaits, while the
\* OAuth callback and the disconnect endpoint use the same repository.
RaceNext ==
    \/ \E uid \in Uids : GetOrCreate(uid, Str("a@example.com"), TRUE)
    \/ \E uid \in Uids :
           SaveToken(uid, "adobe", ExpiredToken, "iv-1", "iv-2", TRUE)
    \/ \E r \in Requests, uid \in Uids : Begin(r, uid)
    \/ \E r \in Requests, outcome \in RaceOutcomes :
           RefreshResponse(r, outcome)
    \/ \E r \in Requests : Persist(r, "iv-2", "iv-1")
    \/ \E r \in Requests : ApiResponse(r, HttpResponse(200, None))
    \/ \E uid \in Uids : DeleteToken(uid, "adobe", TRUE)
    \/ Tick

RaceSpec == RaceInit /\ [][RaceNext]_vars

----------------------------------------------------------------------------
(* get_or_create at its awaits *)

\* A call that ended: the exception raised or the user returned, and
\* whether the call wrote the user document.
Created(call, exc, ret, wrote) ==
    [call EXCEPT !.pc = "done", !.exc = exc, !.ret = ret, !.wrote = wrote]

\* get_or_create(uid, email) is called.  The in-memory repository has no
\* await between its test and its write, so the whole call is one step.  The
\* Firestore repository runs up to the end of "await self.get_by_uid(uid)":
\* an existing user is returned, otherwise the call goes on to create.
CreateBegin(c, uid, email) ==
    LET repo == get_user_repository(_repository, GCP_PROJECT_ID,
                                    TOKEN_ENCRYPTION_KEY, TRUE)
        call == [NoCreate EXCEPT !.uid = uid, !.email = email]
        m == InMemoryGetOrCreate(memory, uid, email)
    IN  /\ creating[c].pc \in {"idle", "done"}
        /\ _repository' = repo
        /\ IF repo = FirestoreUserRepository
           THEN \E existing \in {get_by_uid(firestore, uid, _fernet,
                                             TOKEN_ENCRYPTION_KEY)} :
                    /\ _fernet' = existing.cache
                    /\ creating' = [creating EXCEPT ![c] =
                           IF existing.exc # "" \/ existing.ret # None
                           THEN Created(call, existing.exc, existing.ret, FALSE)
                           ELSE [call EXCEPT !.pc = "creating",
                                             !.user = User(uid, email)]]
                    /\ UNCHANGED memory
           ELSE /\ memory' = m.store
                /\ creating' = [creating EXCEPT ![c] =
                       Created(call, m.exc, m.ret, ~HasUser(memory, uid))]
                /\ UNCHANGED _fernet
        /\ UNCHANGED <<GCP_PROJECT_ID, firestore, written, op,
                       TOKEN_ENCRYPTION_KEY, encrypted, decrypted>>
        /\ UNCHANGED <<webVars, frameioVars, authVars>>

\* create(user) up to the end of "doc = await doc_ref.get()": an existing
\* document raises ValueError("User ... already exists").
CreateGet(c) ==
    /\ creating[c].pc = "creating"
    /\ creating' = [creating EXCEPT ![c] =
           IF HasUser(firestore, creating[c].uid)
           THEN Created(@, "ValueError", None, FALSE)
           ELSE [@ EXCEPT !.pc = "setting"]]
    /\ UNCHANGED <<webVars, cipherVars, storeVars, frameioVars, authVars>>

\* create(user) from "await doc_ref.set(...)" to the return of
\* get_or_create: the document is written whatever is there by now.
CreateSet(c) ==
    /\ creating[c].pc = "setting"
    /\ firestore' = [firestore EXCEPT !.users[creating[c].uid] = creating[c].user]
    /\ creating' = [creating EXCEPT ![c] = Created(@, "", creating[c].user, TRUE)]
    /\ UNCHANGED <<GCP_PROJECT_ID, _repository, memory, written, op>>
    /\ UNCHANGED <<webVars, cipherVars, frameioVars, authVars>>

CreateInit ==
    /\ WebIdle
    /\ TOKEN_ENCRYPTION_KEY \in {KeyUnset, Key1}
    /\ _fernet = None
    /\ encrypted = NoCall
    /\ decrypted = NoCall
    /\ GCP_PROJECT_ID = Str("project")
    /\ _repository = None
    /\ firestore = EmptyStore
    /\ memory = EmptyStore
    /\ written = [FirestoreUserRepository |-> EmptyStore.tokens,
                  InMemoryUserRepository |-> EmptyStore.tokens]
    /\ op = NoCall
    /\ FrameioIdle
    /\ SessionIdle

\* Two callers sign in as the same user at once, each with the email its
\* own token carries.
CreateNext ==
    \/ \E c \in Callers, uid \in Uids, email \in Emails :
           CreateBegin(c, uid, email)
    \/ \E c \in Callers : CreateGet(c)
    \/ \E c \in Callers : CreateSet(c)

CreateSpec == CreateInit /\ [][CreateNext]_vars

----------------------------------------------------------------------------
(* Vocabulary of the claims *)

Answered == last # NoDelivery

IsAscii(bytes) == \A i \in 1..Len(bytes) : bytes[i] < 128

\* A body that is a JSON object with the event's required field.
WellFormed(body) ==
    /\ body.json.ok
    /\ body.json.value.k = "dict"
    /\ "type" \in DOMAIN body.json.value.f

HeadersPresent(d) == d.ts # Missing /\ d.sig # Missing

TimestampOff(d, t) ==
    IF d.ts.n > t THEN d.ts.n - t > SIGNATURE_TIME_TOLERANCE
    ELSE t - d.ts.n > SIGNATURE_TIME_TOLERANCE

\* The signature the contract asks for: the HMAC under the shared secret of
\* "v0:" + timestamp + ":" + the body bytes received.
ContractSignature(d) ==
    V0(HmacSha256(TheSecret, [ts |-> d.ts.n, body |-> d.body.bytes]))

PublishFails(disp) ==
    disp.outcome \in {Raise, Return(None), Return(Str(""))}

InQueue(from, bodyId) ==
    \E i \in 1..Len(queue) : queue[i].from = from /\ queue[i].body = bodyId

----------------------------------------------------------------------------
(* C1 *)

\* C1: a delivery is answered 200 only if the queue accepted a message for
\* that event before the response was produced, and process_webhook returns
\* to its caller only when the queue accepted the event.
C1_OkOnlyAfterQueueAccepts ==
    /\ (Answered /\ last.status = 200) => InQueue(last.endpoint, last.d.body.id)
    /\ (svc.called /\ svc.result.exc = "") => svc.disp.accepted

(* C2 *)

\* C2: when the publish call raises or returns no message id (None or
\* empty), process_webhook raises PublisherError, and the app endpoint
\* answers such a delivery with a 500-class status, never 200.
C2_PublishFailureIsAnError ==
    /\ (svc.called /\ PublishFails(svc.disp))
           => svc.result = Raised("PublisherError")
    /\ (Answered /\ last.endpoint = "app" /\ PublishFails(last.disp))
           => last.status \in 500..599

(* C3 *)

C4_AtLeastOnce ==
    \A e \in SenderEvents :
        <>(senderStatus[e.id] = 200 /\ InQueue(deployment, e.id))

(* C5 *)

C6_SignatureBindsBody ==
    (Answered /\ last.verified) => last.d.sig = ContractSignature(last.d)

(* C7 *)

\* C7: a delivery whose body is not valid JSON, or is valid JSON lacking the
\* required event fields, is answered 422, and is never published.
C7_MalformedIs422 ==
    (Answered /\ last.endpoint = "app" /\ ~WellFormed(last.d.body))
        => last.status = 422 /\ ~InQueue("app", last.d.body.id)

(* C8 *)

\* C8: for a well-formed delivery, when the publisher returns a non-empty
\* message id, the endpoint responds 200 and the response carries that id.
C8_OkCarriesMessageId ==
    (Answered /\ last.endpoint = "app" /\ WellFormed(last.d.body)
        /\ last.disp.r.k = "return" /\ last.disp.r.v \in MessageIds)
        => /\ last.status = 200
           /\ last.content = Obj([message_id |-> last.disp.r.v])

(* C9 *)

\* A string UTF-8 can encode: a text without lone surrogates.
Encodable(s) ==
    "b64" \in DOMAIN s \/ \A i \in 1..Len(s.text) : ~IsSurrogate(s.text[i])

\* decrypt_token was given what the last encrypt_token returned, under the
\* same cipher instance.
DecryptedTheEncrypted ==
    /\ encrypted.called /\ decrypted.called
    /\ encrypted.out.exc = ""
    /\ decrypted.ciphertext = encrypted.out.ret
    /\ decrypted.fernet = encrypted.fernet

\* C9 as stated: under a configured key, for every string s, encrypt_token(s)
\* returns a string other than s, and decrypt_token of it returns s.
C9_RoundTripEveryString ==
    /\ (encrypted.called /\ encrypted.fernet # None)
           => encrypted.out.exc = "" /\ encrypted.out.ret # encrypted.plaintext
    /\ DecryptedTheEncrypted
           => decrypted.out = [exc |-> "", ret |-> encrypted.plaintext]

\* C9 amended: under a configured key, for every string s that UTF-8 can
\* encode (no lone surrogate), encrypt_token(s) returns a string other than
\* s, and decrypt_token of it, under the same key, returns s.
C9_RoundTrip ==
    /\ (encrypted.called /\ encrypted.fernet # None
            /\ Encodable(encrypted.plaintext))
           => encrypted.out.exc = "" /\ encrypted.out.ret # encrypted.plaintext
    /\ DecryptedTheEncrypted
           => decrypted.out = [exc |-> "", ret |-> encrypted.plaintext]

C9_Witness ==
    /\ DecryptedTheEncrypted
    /\ encrypted.plaintext = Text(<<8364, 97>>)
    /\ decrypted.out.ret = encrypted.plaintext

(* C10 *)

\* C10: every token record held by the store of the selected repository has
\* access_token and refresh_token fields that differ from the plaintext
\* values last saved and decrypt to them.
C10_EncryptedAtRest ==
    _repository # None
        => \A key \in TokenKeys :
               LET doc == StoreOf(_repository).tokens[key]
                   plain == written[_repository.k][key]
               IN  doc # NoDoc
                       => \A f \in {"access_token", "refresh_token"} :
                              plain[f] # None
                                  => /\ doc[f] # plain[f]
                                     /\ decrypt_token(doc[f], _fernet,
                                                      TOKEN_ENCRYPTION_KEY).ret
                                            = plain[f]

(* C11 *)

\* The ciphertext of a stored field does not decrypt under key: it was made
\* under another key or changed after it was made.
Undecryptable(c, key) ==
    c # None /\ ~FernetDecrypt(key, StrEncode(c).bytes).ok

\* The token document the last call was about holds a field that the cipher
\* of the process cannot decrypt.
ReadUndecryptable ==
    /\ op.called /\ op.name = "get_token"
    /\ op.repo = FirestoreUserRepository
    /\ firestore.tokens[<<op.uid, op.provider>>] # NoDoc
    /\ \E f \in {"access_token", "refresh_token"} :
           Undecryptable(firestore.tokens[<<op.uid, op.provider>>][f],
                         TOKEN_ENCRYPTION_KEY)

\* C11: get_token on a stored token whose ciphertext cannot be decrypted
\* raises; it never returns None for such a record, and when the process
\* holds a working cipher the exception is EncryptionError.
C11_DecryptFailureNotAbsent ==
    ReadUndecryptable
        => /\ op.exc # ""
           /\ TOKEN_ENCRYPTION_KEY \in FernetKeys => op.exc = "EncryptionError"

\* A token saved under one key was read after the process restarted with
\* another, and the read raised EncryptionError.
C11_Witness ==
    /\ ReadUndecryptable
    /\ TOKEN_ENCRYPTION_KEY = Key2
    /\ firestore.tokens[<<op.uid, op.provider>>].access_token.b64.ct.key = Key1
    /\ op.exc = "EncryptionError"

(* C12 *)

\* C12: whenever the process has answered a webhook delivery or served a
\* repository call, the webhook shared secret and the token encryption key
\* are both present in its configuration.
C12_FailFast ==
    (Answered \/ op.called)
        => /\ FRAMEIO_WEBHOOK_SECRET # NoSecret
           /\ Truthy(TOKEN_ENCRYPTION_KEY)

(* C13 .. C17 *)

\* The token get_token returned to request r has no expires_at or one after
\* the clock at that moment.
FoundValid(r) ==
    /\ req[r].found # None
    /\ \/ req[r].found.expires_at = None
       \/ req[r].found.expires_at.v > req[r].t0

\* The token get_token returned to request r has an expires_at before the
\* clock at that moment.
FoundExpired(r) ==
    /\ req[r].found # None
    /\ req[r].found.expires_at # None
    /\ req[r].found.expires_at.v < req[r].t0

\* C13: a request that finds a stored token without expires_at, or with an
\* expires_at in the future, never posts to the token endpoint and sends
\* the stored access token to the API.
C13_ValidTokenUsedUnchanged ==
    \A r \in Requests :
        req[r].pc # "idle" /\ FoundValid(r)
            => /\ req[r].posts = 0
               /\ req[r].pc \in {"requesting", "done"}
               /\ req[r].bearer = req[r].found.access_token

\* A request is at the API with a stored token that has a refresh token and
\* an expires_at still in the future.
C13_Witness ==
    \E r \in Requests :
        /\ req[r].pc = "requesting"
        /\ FoundValid(r)
        /\ req[r].found.expires_at # None
        /\ req[r].found.refresh_token = Text(<<114>>)
        /\ req[r].posts = 0
        /\ req[r].bearer = req[r].found.access_token

\* C14: when an expired token with a non-empty refresh token is refreshed
\* and the token endpoint answers 200 with an access token, the request has
\* posted exactly once and holds a token whose expires_at is in the future.
C14_RefreshYieldsFutureExpiry ==
    \A r \in Requests :
        (/\ FoundExpired(r)
         /\ req[r].found.refresh_token \notin {None, Text(<<>>)}
         /\ req[r].refresh # None
         /\ req[r].refresh.kind = "response"
         /\ req[r].refresh.status = 200
         /\ req[r].refresh.json.access_token # Absent)
            => /\ req[r].posts = 1
               /\ req[r].token.expires_at # None
               /\ req[r].token.expires_at.v > now

\* C15: a request that finds an expired token without a refresh token ends
\* with TokenExpiredError and has never posted to the token endpoint.
C15_ExpiredWithoutRefreshToken ==
    \A r \in Requests :
        FoundExpired(r) /\ req[r].found.refresh_token \in {None, Text(<<>>)}
            => /\ req[r].pc = "done"
               /\ req[r].exc = "TokenExpiredError"
               /\ req[r].posts = 0

\* A request found an expired token without refresh token while the client
\* credentials for refreshing were configured, and was answered 401.
C15_Witness ==
    \E r \in Requests :
        /\ FoundExpired(r)
        /\ req[r].found.refresh_token = None
        /\ can_refresh_tokens(frameio_config)
        /\ req[r].exc = "TokenExpiredError"
        /\ req[r].status = 401

\* C16: in the step that sends the API request after a refresh, the
\* repository already returns the refreshed token for the request's uid:
\* its access token is the one the provider sent and the one the request
\* carries, and no longer the one that was found expired.
C16_PersistedBeforeUse ==
    [][\A r \in Requests :
          (req[r].pc = "persisting" /\ req'[r].pc = "requesting")
              => \E stored \in
                     {IF _repository' = FirestoreUserRepository
                      THEN FirestoreGetToken(firestore', req[r].uid, "adobe",
                                             _fernet', TOKEN_ENCRYPTION_KEY')
                      ELSE [exc |-> "",
                            ret |-> InMemoryGetToken(memory', req[r].uid,
                                                     "adobe")]} :
                     /\ stored.exc = ""
                     /\ stored.ret # None
                     /\ stored.ret.access_token = req'[r].bearer
                     /\ req'[r].bearer = req[r].refresh.json.access_token
       ]_vars

\* A refreshed request is at the API with an access token other than the
\* one it found, and get_token returns that new token.
C16_Witness ==
    \E r \in Requests :
        /\ req[r].pc = "requesting"
        /\ req[r].posts = 1
        /\ req[r].persisted
        /\ req[r].bearer # req[r].found.access_token
        /\ GetToken(_repository, req[r].uid, "adobe").ret.access_token
               = req[r].bearer

\* C17: a refresh the token endpoint rejected ends in an auth error answered
\* 401; a refresh whose POST failed or timed out ends in a Frame.io error
\* that is not an auth error, answered 502 or 503.
C17_RefreshFailuresClassified ==
    \A r \in Requests :
        req[r].pc = "done" /\ req[r].refresh # None
            => /\ (req[r].refresh.kind = "response"
                      /\ req[r].refresh.status = 400)
                      => /\ req[r].exc \in FrameioAuthErrors
                         /\ req[r].status = 401
               /\ req[r].refresh.kind = "failure"
                      => /\ req[r].exc \in FrameioErrors \ FrameioAuthErrors
                         /\ req[r].status \in {502, 503}

(* C18 .. C20 *)

\* The store of the repository that served the call recorded in the next
\* state, before and after the step.
StoreBefore == StoreOf(op'.repo)
StoreAfter ==
    IF op'.repo = FirestoreUserRepository THEN firestore' ELSE memory'

C20_EmailOfFirstCreation ==
    [][op'.called
          => /\ \A uid \in Uids :
                    /\ HasUser(firestore, uid)
                           => firestore'.users[uid] = firestore.users[uid]
                    /\ HasUser(memory, uid)
                           => memory'.users[uid] = memory.users[uid]
             /\ op'.name = "get_or_create"
                    => /\ op'.exc = ""
                       /\ op'.ret = StoreAfter.users[op'.uid]
                       /\ HasUser(StoreBefore, op'.uid)
                              => op'.ret = StoreBefore.users[op'.uid]
                       /\ ~HasUser(StoreBefore, op'.uid)
                              => op'.ret.email = op'.email
      ]_vars

\* get_or_create was called with another email than the one stored, and
\* returned the stored record.
C20_Witness ==
    /\ op.called /\ op.name = "get_or_create"
    /\ op.exc = ""
    /\ op.ret.email # op.email
    /\ StoreOf(op.repo).users[op.uid] = op.ret

----------------------------------------------------------------------------
(* Sessions and users *)

\* C21: once the magic-link callback has answered 302 with a session cookie
\* for uid, a user record for uid exists in the store (the document
\* database or the in-memory repository), so that an OAuth callback of that
\* session finds the user its save_token requires.
C21_UserCreatedOnRedemption ==
    \A uid \in Uids :
        ( /\ auth.endpoint = "magic_callback"
          /\ auth.status = 302
          /\ auth.set_cookie[session_cookie_name] = FirebaseCookie(uid, LinkEmail) )
            => (HasUser(firestore, uid) \/ HasUser(memory, uid))

\* The endpoints behind a session dependency.
ProtectedEndpoints ==
    {"dashboard", "users_me", "connect", "callback", "disconnect"}

\* C22: a protected endpoint answers 401 to every request whose session
\* cookie is missing or fails verification, whatever the failure is (an
\* invalid, expired or revoked cookie, a disabled user, a failed certificate
\* fetch, a ValueError); no such request is answered with another status.
C22_VerificationFailureIs401 ==
    (auth.endpoint \in ProtectedEndpoints /\ auth.idp # "ok")
        => auth.status = 401

\* The response sets no login session cookie.
NoSessionSet ==
    \/ auth.set_cookie[session_cookie_name] = Absent
    \/ auth.set_cookie[session_cookie_name].kind # "firebase"

\* C23: the callback answers a request without email, or with an email
\* other than the one the link was requested for, with a 4xx status other
\* than 401; it answers 401 when the identity provider rejects the code of a
\* request with the right email; in neither case does it set a session
\* cookie.
C23_EmailFailuresAre400 ==
    auth.endpoint = "magic_callback" =>
        /\ ( \/ ~Truthy(auth.request.email)
             \/ (auth.request.email # LinkEmail /\ auth.idp = "INVALID_EMAIL") )
               => /\ auth.status \in 400..499
                  /\ auth.status # 401
                  /\ NoSessionSet
        /\ ( /\ auth.request.email = LinkEmail
             /\ auth.idp \in {"EXPIRED_OOB_CODE", "INVALID_OOB_CODE"} )
               => /\ auth.status = 401
                  /\ NoSessionSet

\* The endpoints of the OAuth router the model serves.
OAuthEndpoints == {"connect", "callback", "disconnect"}

\* C24: when an OAuth endpoint has answered a request that carried the
\* login's session cookie, its response set no cookie named 'session' and
\* the browser still holds the cookie the login set.
C24_SessionCookieUntouched ==
    ( /\ auth.endpoint \in OAuthEndpoints
      /\ auth.sent # Absent
      /\ auth.sent.kind = "firebase" )
        => /\ auth.set_cookie[session_cookie_name] = Absent
           /\ cookies[session_cookie_name] = auth.sent

----------------------------------------------------------------------------
(* Concurrent refreshes and disconnects *)

\* What get_token(uid, "adobe") returns in the state a step leads to.
StoredAfter(uid) ==
    IF _repository' = FirestoreUserRepository
    THEN FirestoreGetToken(firestore', uid, "adobe", _fernet',
                           TOKEN_ENCRYPTION_KEY')
    ELSE [exc |-> "", ret |-> InMemoryGetToken(memory', uid, "adobe")]

\* Request q has refreshed the token request r found, and has persisted
\* its result.
RefreshedSame(q, r) ==
    /\ q # r
    /\ req[q].uid = req[r].uid
    /\ req[q].posts = 1
    /\ req[q].persisted
    /\ req[q].found = req[r].found

\* C25: nothing serializes two refreshes of one token. In the step in which
\* the second of two requests that refreshed the same expired token has its
\* result persisted, the stored token becomes that request's token (the
\* later write), which is one of the two tokens the token endpoint
\* returned, and it is not expired.
C25_ConcurrentRefreshLastWriteWins ==
    [][\A r \in Requests, q \in Requests :
          ( /\ RefreshedSame(q, r)
            /\ req[r].pc = "persisting"
            /\ req'[r].pc = "requesting" )
              => \E stored \in {StoredAfter(req[r].uid)} :
                     /\ stored.exc = ""
                     /\ stored.ret # None
                     /\ stored.ret.access_token = req[r].token.access_token
                     /\ stored.ret.access_token
                            \in {req[r].refresh.json.access_token,
                                 req[q].refresh.json.access_token}
                     /\ ~is_expired(stored.ret, now)
       ]_vars

\* Both requests found the same expired token, each posted one refresh and
\* got a token of its own, each persisted it and was answered 200, and the
\* repository returns one of the two.
C25_Witness ==
    /\ RefreshedSame("r1", "r2")
    /\ RefreshedSame("r2", "r1")
    /\ is_expired(req["r1"].found, req["r1"].t0)
    /\ req["r1"].pc = "done" /\ req["r1"].status = 200
    /\ req["r2"].pc = "done" /\ req["r2"].status = 200
    /\ req["r1"].token.access_token # req["r2"].token.access_token
    /\ GetToken(_repository, "user-1", "adobe").ret # None
    /\ GetToken(_repository, "user-1", "adobe").ret.access_token
           \in {req["r1"].token.access_token, req["r2"].token.access_token}

----------------------------------------------------------------------------
(* Retried deliveries *)

\* What the endpoint answers when process_webhook is handed this answer of
\* the publisher: the "except Exception" of frameio_webhook turns the
\* PublisherError into a 500.
AnsweredError(answer) ==
    process_webhook(FrameIOEventInit(EventA), EmptyDict, "testclient",
                    Return(answer)).exc = "PublisherError"

C27_AttributesFromPayload ==
    \A i \in 1..Len(queue) :
        queue[i].from = "publisher"
            => queue[i].message.attributes
                   = [event_type |-> ExtractFields(EventA).event_type,
                      resource_type |-> ExtractFields(EventA).resource_type,
                      resource_id |-> ExtractFields(EventA).resource_id]

\* The token the repository holds for uid before the step.
StoredBefore(uid) ==
    IF _repository = FirestoreUserRepository
    THEN FirestoreGetToken(firestore, uid, "adobe", _fernet,
                           TOKEN_ENCRYPTION_KEY)
    ELSE [exc |-> "", ret |-> InMemoryGetToken(memory, uid, "adobe")]

\* C28: disconnect is final.  A request that found a token and is about to
\* persist its refreshed token, while the repository holds no token any
\* more (delete_token removed it after the request had read it), does not
\* bring a token back: after the step in which its on_token_refresh runs,
\* the repository still holds no token for the user.
C28_DisconnectIsFinal ==
    [][\A r \in Requests :
          ( /\ req[r].pc = "persisting"
            /\ req'[r].pc # "persisting"
            /\ req[r].found # None
            /\ _repository # None
            /\ StoredBefore(req[r].uid) = [exc |-> "", ret |-> None] )
              => StoredAfter(req[r].uid) = [exc |-> "", ret |-> None]
       ]_vars

\* The user record the selected repository holds for uid.
StoredUser(uid) == StoreOf(_repository).users[uid]

\* C29: get_or_create calls for one uid, however they interleave, write the
\* user record once: no call raises "already exists", at most one call
\* writes the record, and every call that returned a user returned the
\* email the repository holds.
C29_ConcurrentGetOrCreate ==
    /\ \A c \in Callers :
           creating[c].pc = "done" => creating[c].exc # "ValueError"
    /\ \A c \in Callers, d \in Callers :
           (creating[c].wrote /\ creating[d].wrote
                /\ creating[c].uid = creating[d].uid) => c = d
    /\ \A c \in Callers :
           (creating[c].pc = "done" /\ creating[c].exc = "")
               => creating[c].ret.email = StoredUser(creating[c].uid).email

\* C30: a successful refresh keeps the ability to refresh.  A request that
\* found a token with a refresh token and got a 200 from the token endpoint
\* holds, and hands to on_token_refresh, a token with a non-empty refresh
\* token.
C30_RefreshKeepsRefreshToken ==
    \A r \in Requests :
        ( /\ req[r].pc \in {"persisting", "requesting"}
          /\ req[r].posts = 1
          /\ req[r].refresh # None
          /\ req[r].refresh.status = 200
          /\ HasRefreshToken(req[r].found) )
            => HasRefreshToken(req[r].token)

====
